---------------------------- MODULE Spec2Model ----------------------------
(***************************************************************************)
(* Price resolution of the zakat API: the gold route, the silver route     *)
(* (both revisions of its GET handler), their in-memory caches and their   *)
(* monthly snapshot files.                                                 *)
(*                                                                         *)
(* Numbers are fixed point: a price is an integer count of 1/10000 CAD     *)
(* (6274.64 CAD is 62746400).  The clock has two readings: now, the        *)
(* milliseconds Date.now() returns (counted from the start of the          *)
(* process), and today, the year and zero-based month new Date() returns.  *)
(* A handler runs without interruption between two awaits of a network     *)
(* round trip, as on the JavaScript event loop: an adapter that returns    *)
(* without a fetch resolves in the same turn.                              *)
(***************************************************************************)
EXTENDS Integers, Sequences, FiniteSets, TLC

VARIABLES
    env,         \* process.env: which credentials are configured; and
                 \* whether the upstream sends odd bodies
    now,         \* Date.now(), ms since the process started
    today,       \* [year, month0] of new Date()
    priceCache,  \* cacheKey -> [present, ts, data]
    files,       \* instrument -> the monthly snapshot file
    req,         \* request -> the local state of its GET handler
    post,        \* the local state of the update-monthly POST handler
    nisab,       \* the local state of the nisab handler that calls /api/gold
    writers      \* server process -> its position in a snapshot write

vars == <<env, now, today, priceCache, files, req, post, nisab, writers>>

----------------------------------------------------------------------------
(* Bounds of the model *)

MaxTicks == 2        \* the clock is advanced at most this often
MaxRollovers == 1    \* month boundaries crossed at most this often

\* the requests of a run, accepted in this order
Requests == {1, 2}
Instruments == {"gold", "silver"}

\* the GET handlers: the gold route, the silver route, and the revision of
\* the silver route that does not write the snapshot ("silver2")
Routes == {"gold", "silver", "silver2"}

\* December 2023: the first rollover changes the year
StartDay == [year |-> 2023, month0 |-> 11]

----------------------------------------------------------------------------
(* Program constants *)

CACHE_TTL_MS == 600000

\* the clock advances by the lifetime of a cache entry: an entry is read
\* at the ages 0, CACHE_TTL_MS (the last fresh one) and beyond
ClockStep == CACHE_TTL_MS

----------------------------------------------------------------------------
(* Numbers *)

\* [q, r] of a*b over d, from h, the [q, r] of a*(b \div 2) over d
Doubled(h, a, b, d) ==
    LET q2 == 2 * h.q + ((2 * h.r) \div d)
        r2 == (2 * h.r) % d
    IN  IF b % 2 = 0 THEN [q |-> q2, r |-> r2]
        ELSE [q |-> q2 + (a \div d) + ((r2 + (a % d)) \div d),
              r |-> (r2 + (a % d)) % d]

RECURSIVE MulDivMod(_, _, _)
\* [q, r] with a*b = q*d + r and 0 <= r < d, without an intermediate a*b;
\* the half product is bound as a value, so it is computed once
MulDivMod(a, b, d) ==
    IF b = 0 THEN [q |-> 0, r |-> 0]
    ELSE CHOOSE m \in {Doubled(h, a, b, d) : h \in {MulDivMod(a, b \div 2, d)}} : TRUE

\* round(a*b/d) for a, b >= 0, d > 0
MulDiv(a, b, d) ==
    LET m == MulDivMod(a, b, d) IN IF 2 * m.r >= d THEN m.q + 1 ELSE m.q

\* price_oz / 31.1034768  (31.1034768 = 19439673 / 625000)
GramOfOunce(price_oz) == MulDiv(price_oz, 625000, 19439673)


----------------------------------------------------------------------------
(* Month keys: strings are sequences of character codes, so that sort()     *)
(* orders them as JavaScript does, code unit by code unit                   *)

RECURSIVE DecDigits(_)
\* String(n) for n >= 0
DecDigits(n) ==
    IF n < 10 THEN <<48 + n>> ELSE DecDigits(n \div 10) \o <<48 + (n % 10)>>

\* s.padStart(2, '0')
padStart2(s) == IF Len(s) < 2 THEN <<48>> \o s ELSE s

\* `${now.getFullYear()}-${String(now.getMonth() + 1).padStart(2, '0')}`
monthKey(d) == DecDigits(d.year) \o <<45>> \o padStart2(DecDigits(d.month0 + 1))

RECURSIVE LexLess(_, _)
\* a < b as strings
LexLess(a, b) ==
    IF b = <<>> THEN FALSE
    ELSE IF a = <<>> THEN TRUE
    ELSE IF Head(a) # Head(b) THEN Head(a) < Head(b)
    ELSE LexLess(Tail(a), Tail(b))

\* variant of latestMonth: Object.keys(m).sort()[0]
earliestMonth(keys) == CHOOSE k \in keys : \A o \in keys : o = k \/ LexLess(k, o)

\* Object.keys(m).sort().reverse()[0], for a non-empty set of keys
latestMonth(keys) == CHOOSE k \in keys : \A o \in keys : o = k \/ LexLess(o, k)

\* the calendar month after d
NextMonth(d) ==
    IF d.month0 = 11 THEN [year |-> d.year + 1, month0 |-> 0]
    ELSE [year |-> d.year, month0 |-> d.month0 + 1]

RECURSIVE MonthsAfter(_, _)
MonthsAfter(d, n) == IF n = 0 THEN d ELSE NextMonth(MonthsAfter(d, n - 1))

\* how many month boundaries the clock has crossed
Rollovers(d) == CHOOSE n \in 0..(MaxRollovers + 1) : MonthsAfter(StartDay, n) = d

----------------------------------------------------------------------------
(* Payloads *)

NoPayload == [price_oz |-> 0, price_gram_24k |-> 0, currency |-> "", provider |-> ""]

Payload(oz, gram, tag) ==
    [price_oz |-> oz, price_gram_24k |-> gram, currency |-> "CAD", provider |-> tag]

\* variant of Instrument: every route keeps its state under gold's names
InstrumentShared(route) == "gold"

\* the metal a route quotes
Instrument(route) == IF route \in {"gold", "nisab"} THEN "gold" ELSE "silver"

cacheKey(inst) == IF inst = "gold" THEN "XAU-CAD" ELSE "XAG-CAD"

\* the key of a route's entry in priceCache: each route module has a Map of
\* its own, and the nisab route's Map uses the key 'XAU-CAD' as well
CacheOf(route) ==
    IF route = "nisab" THEN "nisab:XAU-CAD" ELSE cacheKey(Instrument(route))

CacheKeys == {cacheKey(inst) : inst \in Instruments} \cup {CacheOf("nisab")}

NoEntry == [present |-> FALSE, ts |-> 0, data |-> NoPayload]

----------------------------------------------------------------------------
(* Request cache *)

\* variant of getCachedPrice: an entry expires at the age of CACHE_TTL_MS
getCachedPriceExpiresAtTtl(cache, key, t) ==
    IF ~cache[key].present
    THEN [hit |-> FALSE, data |-> NoPayload, cache |-> cache]
    ELSE IF t - cache[key].ts >= CACHE_TTL_MS
    THEN [hit |-> FALSE, data |-> NoPayload,
          cache |-> [cache EXCEPT ![key] = NoEntry]]
    ELSE [hit |-> TRUE, data |-> cache[key].data, cache |-> cache]

\* variant of getCachedPrice: an expired entry is left in the map
getCachedPriceKeepsExpired(cache, key, t) ==
    IF cache[key].present /\ t - cache[key].ts <= CACHE_TTL_MS
    THEN [hit |-> TRUE, data |-> cache[key].data, cache |-> cache]
    ELSE [hit |-> FALSE, data |-> NoPayload, cache |-> cache]

\* variant of getCachedPrice: a hit stamps the entry with the time of the read
getCachedPriceTouches(cache, key, t) ==
    IF ~cache[key].present
    THEN [hit |-> FALSE, data |-> NoPayload, cache |-> cache]
    ELSE IF t - cache[key].ts > CACHE_TTL_MS
    THEN [hit |-> FALSE, data |-> NoPayload,
          cache |-> [cache EXCEPT ![key] = NoEntry]]
    ELSE [hit |-> TRUE, data |-> cache[key].data,
          cache |-> [cache EXCEPT ![key].ts = t]]

\* getCachedPrice: the payload read (with cached: true) and the map after
\* the read, which drops an expired entry
getCachedPrice(cache, key, t) ==
    IF ~cache[key].present
    THEN [hit |-> FALSE, data |-> NoPayload, cache |-> cache]
    ELSE IF t - cache[key].ts > CACHE_TTL_MS
    THEN [hit |-> FALSE, data |-> NoPayload,
          cache |-> [cache EXCEPT ![key] = NoEntry]]
    ELSE [hit |-> TRUE, data |-> cache[key].data, cache |-> cache]

\* variant of setCachedPrice: the entry is stamped with the epoch
setCachedPriceAtEpoch(cache, key, data, t) ==
    [cache EXCEPT ![key] = [present |-> TRUE, ts |-> 0, data |-> data]]

\* variant of setCachedPrice: an entry that is present is kept
setCachedPriceKeepsFirst(cache, key, data, t) ==
    IF cache[key].present THEN cache
    ELSE [cache EXCEPT ![key] = [present |-> TRUE, ts |-> t, data |-> data]]

\* setCachedPrice
setCachedPrice(cache, key, data, t) ==
    [cache EXCEPT ![key] = [present |-> TRUE, ts |-> t, data |-> data]]

----------------------------------------------------------------------------
(* Snapshot store: a file is unreadable (it is missing, or it is not JSON:  *)
(* readFileSync or JSON.parse throws), the JSON value null, or a JSON       *)
(* object from month keys to records.  A record's timestamp keeps the year  *)
(* and month of now.toISOString().                                          *)

EmptyMap == <<>>

File(kind, map) == [kind |-> kind, map |-> map]

SnapshotRecord(data, d, t) ==
    [price |-> data.price_oz, price_oz |-> data.price_oz,
     price_gram_24k |-> data.price_gram_24k, currency |-> data.currency,
     provider |-> data.provider, cached |-> TRUE,
     timestamp |-> [year |-> d.year, month0 |-> d.month0]]

\* variant of Upsert: the mapping is started afresh
UpsertAlone(map, key, rec) == [k \in {key} |-> rec]

\* monthlyPrices[key] = rec
Upsert(map, key, rec) ==
    [k \in (DOMAIN map) \cup {key} |-> IF k = key THEN rec ELSE map[k]]

\* variant of updateMonthlyPriceFile: a file that cannot be read is left alone
updateMonthlyPriceFileNeedsFile(file, data, d, t, writeOk) ==
    IF file.kind # "object" THEN file
    ELSE IF writeOk
    THEN File("object", Upsert(file.map, monthKey(d), SnapshotRecord(data, d, t)))
    ELSE file

\* updateMonthlyPriceFile: the file afterwards.  An unreadable file starts
\* from {}; on null the assignment throws; writeOk is whether writeFileSync
\* succeeds.  Every fault is swallowed.
updateMonthlyPriceFile(file, data, d, t, writeOk) ==
    IF file.kind = "null" THEN file
    ELSE LET monthlyPrices == IF file.kind = "object" THEN file.map ELSE EmptyMap
             written == Upsert(monthlyPrices, monthKey(d), SnapshotRecord(data, d, t))
         IN  IF writeOk THEN File("object", written) ELSE file

\* variant of getMonthlyFallback: the record's provider is kept
getMonthlyFallbackKeepsProvider(file, d) ==
    IF file.kind # "object"
    THEN [found |-> FALSE, data |-> NoPayload]
    ELSE IF monthKey(d) \in DOMAIN file.map
    THEN [found |-> TRUE, data |-> file.map[monthKey(d)]]
    ELSE IF DOMAIN file.map # {}
    THEN [found |-> TRUE, data |-> file.map[latestMonth(DOMAIN file.map)]]
    ELSE [found |-> FALSE, data |-> NoPayload]

\* getMonthlyFallback: found is FALSE for null
getMonthlyFallback(file, d) ==
    IF file.kind # "object"
    THEN [found |-> FALSE, data |-> NoPayload]
    ELSE IF monthKey(d) \in DOMAIN file.map
    THEN [found |-> TRUE,
          data |-> [file.map[monthKey(d)] EXCEPT !.provider = "monthly-fallback"]]
    ELSE IF DOMAIN file.map # {}
    THEN [found |-> TRUE,
          data |-> [file.map[latestMonth(DOMAIN file.map)]
                        EXCEPT !.provider = "monthly-fallback"]]
    ELSE [found |-> FALSE, data |-> NoPayload]

----------------------------------------------------------------------------
(* Upstream replies.  A reply is a thrown fetch, a non-success status, a    *)
(* success status whose body does not parse (response.json() throws), or a  *)
(* success status with a body; a number a body lacks is 0.                  *)

GOLD_API_KEYS == <<"GOLD_API_KEY_1", "GOLD_API_KEY_2", "GOLD_API_KEY_3">>

\* the per-ounce quotes goldapi.io may report, in 1/10000 CAD
Quotes(inst) == IF inst = "gold" THEN {62746400} ELSE {1112260}

\* the per-ounce quotes fcsapi and goldprice.org may report
OtherQuotes(inst) == IF inst = "gold" THEN {62900000} ELSE {1120000}

\* metals-api reports CAD per ounce inverted, in 1/10^10
Rates(inst) == IF inst = "gold" THEN {1593717} ELSE {89907000}

\* fcsapi v4 reports USD per ounce; the fx endpoint a USD/CAD rate, 1/10000
UsdQuotes == {805000}
FxRates == {13800}

\* numeric bodies of goldapi.io that no check of the adapter turns away,
\* sent when env.odd: <<price, price_gram_24k>> with a price of 0, and with
\* a gram price that is not the price over 31.1034768
OddQuotes == {<<0, 0>>, <<62746400, 1000000>>}

Throw == [kind |-> "throw"]
BadStatus == [kind |-> "status"]
Unparsable == [kind |-> "unparsable"]
Body(b) == [kind |-> "body", body |-> b]

\* what the lookup of adapter name at the given stage may come back with
Replies(route, name, stage) ==
    LET inst == Instrument(route) IN
    {Throw, BadStatus, Unparsable} \cup
    IF name = "goldapi.io"
    THEN {Body([numeric |-> TRUE, price |-> p, price_gram_24k |-> GramOfOunce(p)])
             : p \in Quotes(inst)}
         \cup {Body([numeric |-> FALSE, price |-> 0, price_gram_24k |-> 0])}
         \cup {Body([numeric |-> TRUE, price |-> b[1], price_gram_24k |-> b[2]])
                  : b \in IF env.odd THEN OddQuotes ELSE {}}
    ELSE IF name = "metals-api"
    THEN {Body([success |-> TRUE, CAD |-> x]) : x \in Rates(inst) \cup {0}}
         \cup {Body([success |-> FALSE, CAD |-> 0])}
    ELSE IF name = "fcsapi" /\ route # "silver2"
    THEN {Body([status |-> TRUE, price |-> p]) : p \in OtherQuotes(inst) \cup {0}}
         \cup {Body([status |-> FALSE, price |-> 0])}
    ELSE IF name = "fcsapi" /\ stage = 1
    THEN {Body([c |-> u]) : u \in UsdQuotes \cup {0}}
    ELSE IF name = "fcsapi"
    THEN {Body([rate |-> x]) : x \in FxRates \cup {0}}
    ELSE {Body([price |-> p]) : p \in OtherQuotes(inst) \cup {0}}

----------------------------------------------------------------------------
(* Provider adapters.  An adapter outcome is a payload, null, or a further  *)
(* fetch the adapter awaits.                                                *)

Got(data) == [t |-> "payload", data |-> data, stage |-> 0, carry |-> 0]
Null == [t |-> "null", data |-> NoPayload, stage |-> 0, carry |-> 0]
Fetch(stage, carry) == [t |-> "fetch", data |-> NoPayload, stage |-> stage, carry |-> carry]

\* fetchGoldApiIo: the loop from key index i on, up to its first fetch
fetchGoldApiIoFrom(e, i) ==
    LET configured == {k \in i..Len(GOLD_API_KEYS) : e.gold[k]}
    IN  IF configured = {} THEN Null
        ELSE Fetch(CHOOSE k \in configured : \A o \in configured : k <= o, 0)

\* variant of fetchGoldApiIo: a non-success status ends the loop over the keys
fetchGoldApiIoStopsOnStatus(e, i, reply) ==
    IF reply.kind = "body" /\ reply.body.numeric
    THEN Got(Payload(reply.body.price, reply.body.price_gram_24k,
                     "goldapi.io (" \o GOLD_API_KEYS[i] \o ")"))
    ELSE IF reply.kind = "status" THEN Null
    ELSE fetchGoldApiIoFrom(e, i + 1)

\* variant of fetchGoldApiIo: the payload is tagged with the first key
fetchGoldApiIoTagsFirstKey(e, i, reply) ==
    IF reply.kind = "body" /\ reply.body.numeric
    THEN Got(Payload(reply.body.price, reply.body.price_gram_24k,
                     "goldapi.io (" \o GOLD_API_KEYS[1] \o ")"))
    ELSE fetchGoldApiIoFrom(e, i + 1)

\* fetchGoldApiIo: after the reply to key i
fetchGoldApiIo(e, i, reply) ==
    IF reply.kind = "body" /\ reply.body.numeric
    THEN Got(Payload(reply.body.price, reply.body.price_gram_24k,
                     "goldapi.io (" \o GOLD_API_KEYS[i] \o ")"))
    ELSE fetchGoldApiIoFrom(e, i + 1)

\* fetchMetalsApi
fetchMetalsApi(reply) ==
    IF reply.kind = "body" /\ reply.body.success /\ reply.body.CAD # 0
    THEN LET price_oz == MulDiv(10000000, 10000000, reply.body.CAD)
         IN  Got(Payload(price_oz, GramOfOunce(price_oz), "metals-api"))
    ELSE Null

\* variant of fetchFcsApi: the payload carries the tag of metals-api
fetchFcsApiTaggedMetals(reply) ==
    IF reply.kind = "body" /\ reply.body.status /\ reply.body.price # 0
    THEN Got(Payload(reply.body.price, GramOfOunce(reply.body.price), "metals-api"))
    ELSE Null

\* fetchFcsApi of the routes gold and silver
fetchFcsApi(reply) ==
    IF reply.kind = "body" /\ reply.body.status /\ reply.body.price # 0
    THEN Got(Payload(reply.body.price, GramOfOunce(reply.body.price), "fcsapi"))
    ELSE Null

\* fetchFcsApi of the route silver2: the XAGUSD lookup (stage 1),
\* then the USD/CAD lookup (stage 2), with 1.4 when the reply has no rate
fetchFcsApiUsd(stage, carry, reply) ==
    IF reply.kind # "body" THEN Null
    ELSE IF stage = 1
    THEN IF reply.body.c = 0 THEN Null ELSE Fetch(2, reply.body.c)
    ELSE LET usdCadRate == IF reply.body.rate # 0 THEN reply.body.rate ELSE 14000
             price_oz == MulDiv(carry, usdCadRate, 10000)
         IN  Got(Payload(price_oz, GramOfOunce(price_oz), "fcsapi"))

\* fetchGoldPriceOrg
fetchGoldPriceOrg(reply) ==
    IF reply.kind = "body" /\ reply.body.price > 0
    THEN Got(Payload(reply.body.price, GramOfOunce(reply.body.price), "goldprice.org"))
    ELSE Null

\* the providers array of GET
providers(route) ==
    IF route = "gold" THEN <<"goldapi.io", "metals-api", "fcsapi", "goldprice.org">>
    ELSE <<"goldapi.io", "metals-api", "fcsapi">>

\* variant of AdapterStart: metals-api and fcsapi are asked without a key
AdapterStartWithoutKey(e, name) ==
    IF name = "goldapi.io" THEN fetchGoldApiIoFrom(e, 1)
    ELSE Fetch(1, 0)

\* fn(): the adapter up to its first await
AdapterStart(e, name) ==
    IF name = "goldapi.io" THEN fetchGoldApiIoFrom(e, 1)
    ELSE IF name = "metals-api" THEN (IF e.metals THEN Fetch(1, 0) ELSE Null)
    ELSE IF name = "fcsapi" THEN (IF e.fcs THEN Fetch(1, 0) ELSE Null)
    ELSE Fetch(1, 0)

\* the adapter from the reply it awaited to its next await or its return
AdapterStep(e, route, name, stage, carry, reply) ==
    IF name = "goldapi.io" THEN fetchGoldApiIo(e, stage, reply)
    ELSE IF name = "metals-api" THEN fetchMetalsApi(reply)
    ELSE IF name = "fcsapi" /\ route # "silver2" THEN fetchFcsApi(reply)
    ELSE IF name = "fcsapi" THEN fetchFcsApiUsd(stage, carry, reply)
    ELSE fetchGoldPriceOrg(reply)

----------------------------------------------------------------------------
(* The GET handler.  Beside the handler's locals a request records what it *)
(* did: tried and outcomes (the adapters invoked and what each returned),   *)
(* calls (the fetches issued), snapRead (getMonthlyFallback was called),    *)
(* snap (what became of updateMonthlyPriceFile), via (how it ended) and     *)
(* cachedAt (Date.now() when it called setCachedPrice, which is when it     *)
(* responded; 0 when it did not call it).                                   *)

NoResponse == [status |-> 0, body |-> [error |-> ""]]

Idle ==
    [pc |-> "idle", route |-> "gold", grams |-> FALSE, debug |-> FALSE,
     i |-> 0, stage |-> 0, carry |-> 0, errors |-> <<>>,
     tried |-> <<>>, outcomes |-> <<>>, calls |-> <<>>, snapRead |-> FALSE,
     snap |-> "none", via |-> "", cachedAt |-> 0, resp |-> NoResponse]

\* variant of PriceResponse: the price field is the ounce price whatever
\* the unit asked for
PriceResponseInOunces(grams, data, cached) ==
    [status |-> 200,
     body |-> [price |-> data.price_oz,
               price_oz |-> data.price_oz,
               price_gram_24k |-> data.price_gram_24k,
               currency |-> data.currency,
               provider |-> data.provider,
               cached |-> cached]]

\* NextResponse.json({ price, price_oz, ..., cached })
PriceResponse(grams, data, cached) ==
    [status |-> 200,
     body |-> [price |-> IF grams THEN data.price_gram_24k ELSE data.price_oz,
               price_oz |-> data.price_oz,
               price_gram_24k |-> data.price_gram_24k,
               currency |-> data.currency,
               provider |-> data.provider,
               cached |-> cached]]

NISAB_GRAMS == 85

\* the nisab route's NextResponse.json({ nisab, price_gram_24k, ... }); the
\* snapshot records have no type, so a fallback response has none
NisabResponse(data, type, cached) ==
    [status |-> 200,
     body |-> [nisab |-> data.price_gram_24k * NISAB_GRAMS,
               price_gram_24k |-> data.price_gram_24k,
               nisab_grams |-> NISAB_GRAMS,
               currency |-> data.currency,
               provider |-> data.provider,
               type |-> type,
               cached |-> cached]]

\* the success response of the route of request record q
Respond(q, data, type, cached) ==
    IF q.route = "nisab" THEN NisabResponse(data, type, cached)
    ELSE PriceResponse(q.grams, data, cached)

\* variant of ErrorResponse: the error body goes out with status 200
ErrorResponseOk(route, debug, errors) ==
    LET msg == "Failed to fetch " \o Instrument(route) \o " price from all providers"
    IN  [status |-> 200,
         body |-> IF debug THEN [error |-> msg, debug |-> errors]
                  ELSE [error |-> msg]]

\* variant of ErrorResponse: the diagnostics go out whatever debug is
ErrorResponseWithDiagnostics(route, debug, errors) ==
    LET msg == "Failed to fetch " \o Instrument(route) \o " price from all providers"
    IN  [status |-> 500, body |-> [error |-> msg, debug |-> errors]]

\* variant of ErrorResponse: the diagnostics are left out in debug mode too
ErrorResponseWithoutDiagnostics(route, debug, errors) ==
    LET msg == "Failed to fetch " \o Instrument(route) \o " price from all providers"
    IN  [status |-> 500, body |-> [error |-> msg]]

\* the complete-failure response; the nisab route has no diagnostics
ErrorResponse(route, debug, errors) ==
    LET msg == "Failed to fetch " \o Instrument(route) \o " price from all providers"
    IN  IF route = "nisab"
        THEN [status |-> 500,
              body |-> [error |-> "Failed to fetch nisab value from all providers"]]
        ELSE [status |-> 500,
              body |-> IF debug THEN [error |-> msg, debug |-> errors]
                       ELSE [error |-> msg]]

\* variant of PushError: the record goes to the front of errors
PushErrorFirst(q, name) ==
    IF q.debug /\ q.route # "nisab"
    THEN [q EXCEPT !.errors = <<[provider |-> name,
                                 message |-> "No data in response"]>> \o @]
    ELSE q

\* errors.push({ provider: name, message: 'No data in response' }) in debug
PushError(q, name) ==
    IF q.debug /\ q.route # "nisab"
    THEN [q EXCEPT !.errors = Append(@, [provider |-> name,
                                         message |-> "No data in response"])]
    ELSE q

\* variant of TryProviders: the loop is left after its first adapter
TryProvidersOnce(e, q, i) ==
    IF i > 1 THEN [q EXCEPT !.pc = "exhausted", !.i = i]
    ELSE LET name == providers(q.route)[i]
             out  == AdapterStart(e, name)
             q1   == [q EXCEPT !.tried = Append(@, name)]
         IN  IF out.t = "fetch"
             THEN [q1 EXCEPT !.pc = "fetch", !.i = i, !.stage = out.stage,
                             !.carry = out.carry,
                             !.calls = Append(@, <<name, out.stage>>)]
             ELSE [PushError([q1 EXCEPT !.outcomes = Append(@, "null")], name)
                      EXCEPT !.pc = "exhausted", !.i = i + 1]

RECURSIVE TryProviders(_, _, _)
\* the provider loop from index i on, up to its first awaited fetch; an
\* adapter that returns null without a fetch is passed in the same turn
TryProviders(e, q, i) ==
    IF i > Len(providers(q.route)) THEN [q EXCEPT !.pc = "exhausted", !.i = i]
    ELSE LET name == providers(q.route)[i]
             out  == AdapterStart(e, name)
             q1   == [q EXCEPT !.tried = Append(@, name)]
         IN  IF out.t = "fetch"
             THEN [q1 EXCEPT !.pc = "fetch", !.i = i, !.stage = out.stage,
                             !.carry = out.carry,
                             !.calls = Append(@, <<name, out.stage>>)]
             ELSE TryProviders(e, PushError([q1 EXCEPT !.outcomes = Append(@, "null")], name),
                               i + 1)

\* after the loop: the monthly fallback, or the complete failure
AfterProviders(q, file, d) ==
    IF q.pc # "exhausted" THEN q
    ELSE LET fallback == getMonthlyFallback(file, d)
         IN  IF fallback.found
             THEN [q EXCEPT !.pc = "done", !.via = "fallback", !.snapRead = TRUE,
                            !.resp = Respond(q, fallback.data, "", FALSE)]
             ELSE [q EXCEPT !.pc = "done", !.via = "failed", !.snapRead = TRUE,
                            !.resp = ErrorResponse(q.route, q.debug, q.errors)]

\* whether this route's GET calls updateMonthlyPriceFile on a live success
WritesSnapshot(route) == route \notin {"silver2", "nisab"}

\* variant of CheckCache: the cache is read in debug mode too
CheckCacheAlways(debug, cache, key, t) == getCachedPrice(cache, key, t)

\* debug ? null : getCachedPrice(cacheKey)
CheckCache(debug, cache, key, t) ==
    IF debug THEN [hit |-> FALSE, data |-> NoPayload, cache |-> cache]
    ELSE getCachedPrice(cache, key, t)

\* what became of the call of updateMonthlyPriceFile on a live success
SnapshotOutcome(route, file, writeOk) ==
    IF ~WritesSnapshot(route) THEN "none"
    ELSE IF file.kind # "null" /\ writeOk THEN "written"
    ELSE "failed"

\* variant of GET: a request that misses the cache while another request
\* for the same key is awaiting a provider starts no chain of its own
GETJoinsInFlight(r, route, grams, debug) ==
    /\ req[r].pc = "idle"
    /\ \A o \in Requests : o < r => req[o].pc # "idle"
    /\ LET inst == Instrument(route)
           q0 == [Idle EXCEPT !.route = route, !.grams = grams, !.debug = debug]
           c  == CheckCache(debug, priceCache, CacheOf(route), now)
           inFlight == \E o \in Requests :
                          req[o].pc = "fetch" /\ CacheOf(req[o].route) = CacheOf(route)
       IN  /\ priceCache' = c.cache
           /\ req' = [req EXCEPT ![r] =
                        IF c.hit
                        THEN [q0 EXCEPT !.pc = "done", !.via = "cache",
                                        !.resp = Respond(q0, c.data, "Gold", TRUE)]
                        ELSE IF inFlight /\ ~debug
                        THEN [q0 EXCEPT !.pc = "done", !.via = "joined"]
                        ELSE AfterProviders(TryProviders(env, q0, 1),
                                            files[inst], today)]
    /\ UNCHANGED <<env, now, today, files>>

\* GET from the request to its first await or its response
GET(r, route, grams, debug) ==
    /\ req[r].pc = "idle"
    /\ \A o \in Requests : o < r => req[o].pc # "idle"
    /\ LET inst == Instrument(route)
           q0 == [Idle EXCEPT !.route = route, !.grams = grams, !.debug = debug]
           c  == CheckCache(debug, priceCache, CacheOf(route), now)
       IN  /\ priceCache' = c.cache
           /\ req' = [req EXCEPT ![r] =
                        IF c.hit
                        THEN [q0 EXCEPT !.pc = "done", !.via = "cache",
                                        !.resp = Respond(q0, c.data, "Gold", TRUE)]
                        ELSE AfterProviders(TryProviders(env, q0, 1),
                                            files[inst], today)]
    /\ UNCHANGED <<env, now, today, files>>

\* the replies the fetch a request awaits may come back with
Awaited(q) == Replies(q.route, providers(q.route)[q.i], q.stage)

\* variant of Resume: a snapshot write that fails turns the response into
\* the complete-failure response
ResumeSurfacesWriteFailure(r, reply, writeOk) ==
    /\ req[r].pc = "fetch"
    /\ LET q    == req[r]
           inst == Instrument(q.route)
           name == providers(q.route)[q.i]
       IN  /\ reply \in Awaited(q)
           /\ LET out == AdapterStep(env, q.route, name, q.stage, q.carry, reply)
              IN  IF out.t = "payload"
                  THEN /\ priceCache' =
                            IF q.debug THEN priceCache
                            ELSE setCachedPrice(priceCache, CacheOf(q.route), out.data, now)
                       /\ files' =
                            IF WritesSnapshot(q.route)
                            THEN [files EXCEPT ![inst] =
                                    updateMonthlyPriceFile(@, out.data, today, now, writeOk)]
                            ELSE files
                       /\ req' = [req EXCEPT ![r] =
                                    [q EXCEPT !.pc = "done", !.via = "live",
                                              !.cachedAt = IF q.debug THEN 0 ELSE now,
                                              !.outcomes = Append(@, "payload"),
                                              !.snap = SnapshotOutcome(q.route, files[inst],
                                                                       writeOk),
                                              !.resp =
                                                IF SnapshotOutcome(q.route, files[inst],
                                                                   writeOk) = "failed"
                                                THEN ErrorResponse(q.route, q.debug, q.errors)
                                                ELSE Respond(q, out.data, "Gold", FALSE)]]
                  ELSE IF out.t = "fetch"
                  THEN /\ req' = [req EXCEPT ![r] =
                                    [q EXCEPT !.stage = out.stage, !.carry = out.carry,
                                              !.calls = Append(@, <<name, out.stage>>)]]
                       /\ UNCHANGED <<priceCache, files>>
                  ELSE /\ req' = [req EXCEPT ![r] =
                                    AfterProviders(
                                        TryProviders(env,
                                            PushError([q EXCEPT !.outcomes = Append(@, "null")],
                                                      name),
                                            q.i + 1),
                                        files[inst], today)]
                       /\ UNCHANGED <<priceCache, files>>
    /\ UNCHANGED <<env, now, today>>

\* variant of Resume: a payload read from the monthly snapshot is put into
\* the cache like a provider's
ResumeCachesFallback(r, reply, writeOk) ==
    /\ req[r].pc = "fetch"
    /\ LET q    == req[r]
           inst == Instrument(q.route)
           name == providers(q.route)[q.i]
       IN  /\ reply \in Awaited(q)
           /\ LET out == AdapterStep(env, q.route, name, q.stage, q.carry, reply)
              IN  IF out.t = "payload"
                  THEN /\ priceCache' =
                            IF q.debug THEN priceCache
                            ELSE setCachedPrice(priceCache, CacheOf(q.route), out.data, now)
                       /\ files' =
                            IF WritesSnapshot(q.route)
                            THEN [files EXCEPT ![inst] =
                                    updateMonthlyPriceFile(@, out.data, today, now, writeOk)]
                            ELSE files
                       /\ req' = [req EXCEPT ![r] =
                                    [q EXCEPT !.pc = "done", !.via = "live",
                                              !.cachedAt = IF q.debug THEN 0 ELSE now,
                                              !.outcomes = Append(@, "payload"),
                                              !.snap = SnapshotOutcome(q.route, files[inst],
                                                                       writeOk),
                                              !.resp = Respond(q, out.data, "Gold", FALSE)]]
                  ELSE IF out.t = "fetch"
                  THEN /\ req' = [req EXCEPT ![r] =
                                    [q EXCEPT !.stage = out.stage, !.carry = out.carry,
                                              !.calls = Append(@, <<name, out.stage>>)]]
                       /\ UNCHANGED <<priceCache, files>>
                  ELSE /\ req' = [req EXCEPT ![r] =
                                    AfterProviders(
                                        TryProviders(env,
                                            PushError([q EXCEPT !.outcomes = Append(@, "null")],
                                                      name),
                                            q.i + 1),
                                        files[inst], today)]
                       /\ priceCache' =
                            IF req'[r].via = "fallback" /\ ~q.debug
                            THEN setCachedPrice(priceCache, CacheOf(q.route),
                                                getMonthlyFallback(files[inst], today).data,
                                                now)
                            ELSE priceCache
                       /\ UNCHANGED files
    /\ UNCHANGED <<env, now, today>>

\* GET from the reply to the fetch it awaits to its next await or its response
Resume(r, reply, writeOk) ==
    /\ req[r].pc = "fetch"
    /\ LET q    == req[r]
           inst == Instrument(q.route)
           name == providers(q.route)[q.i]
       IN  /\ reply \in Awaited(q)
           /\ LET out == AdapterStep(env, q.route, name, q.stage, q.carry, reply)
              IN  IF out.t = "payload"
                  THEN /\ priceCache' =
                            IF q.debug THEN priceCache
                            ELSE setCachedPrice(priceCache, CacheOf(q.route), out.data, now)
                       /\ files' =
                            IF WritesSnapshot(q.route)
                            THEN [files EXCEPT ![inst] =
                                    updateMonthlyPriceFile(@, out.data, today, now, writeOk)]
                            ELSE files
                       /\ req' = [req EXCEPT ![r] =
                                    [q EXCEPT !.pc = "done", !.via = "live",
                                              !.cachedAt = IF q.debug THEN 0 ELSE now,
                                              !.outcomes = Append(@, "payload"),
                                              !.snap = SnapshotOutcome(q.route, files[inst],
                                                                       writeOk),
                                              !.resp = Respond(q, out.data, "Gold", FALSE)]]
                  ELSE IF out.t = "fetch"
                  THEN /\ req' = [req EXCEPT ![r] =
                                    [q EXCEPT !.stage = out.stage, !.carry = out.carry,
                                              !.calls = Append(@, <<name, out.stage>>)]]
                       /\ UNCHANGED <<priceCache, files>>
                  ELSE /\ req' = [req EXCEPT ![r] =
                                    AfterProviders(
                                        TryProviders(env,
                                            PushError([q EXCEPT !.outcomes = Append(@, "null")],
                                                      name),
                                            q.i + 1),
                                        files[inst], today)]
                       /\ UNCHANGED <<priceCache, files>>
    /\ UNCHANGED <<env, now, today>>

----------------------------------------------------------------------------
(* POST /api/silver/update-monthly.  The handler fetches the silver route   *)
(* of its own server; that fetch is request post.r.                         *)

\* the secret parameter a caller may send; "" is no parameter
Secrets == {"", "s3cret", "wrong"}

\* the handler's position, with the secret it was called with
NoPost == [pc |-> "idle", r |-> 0, secret |-> "", status |-> 0, error |-> ""]

PostDone(status, error) == [post EXCEPT !.pc = "done", !.status = status, !.error = error]

\* variant of Authorized: an unset UPDATE_MONTHLY_SECRET is not looked at
AuthorizedUnchecked(secret) == secret = env.secret

\* expectedSecret && secret === expectedSecret
Authorized(secret) == env.secret # "" /\ secret = env.secret

\* POST from the request to its fetch of the silver route, which the GET
\* handler accepts as request r
POST(r, route, secret) ==
    /\ post.pc = "idle"
    /\ IF ~Authorized(secret)
       THEN /\ post' = [NoPost EXCEPT !.pc = "done", !.secret = secret, !.status = 401,
                                      !.error = "Unauthorized - invalid or missing secret"]
            /\ UNCHANGED <<env, now, today, priceCache, files, req>>
       ELSE /\ Instrument(route) = "silver"
            /\ GET(r, route, FALSE, FALSE)
            /\ post' = [NoPost EXCEPT !.pc = "await", !.r = r, !.secret = secret]

\* POST from the response of the silver route to its own response
PostResume(writeOk) ==
    /\ post.pc = "await"
    /\ req[post.r].pc = "done"
    /\ LET response == req[post.r].resp
           data == response.body
           file == files["silver"]
       IN  IF response.status # 200
           THEN /\ post' = PostDone(500, "Failed to fetch current silver price")
                /\ UNCHANGED files
           ELSE IF data.price_oz = 0 \/ data.price_gram_24k = 0
           THEN /\ post' = PostDone(500, "Invalid price data received")
                /\ UNCHANGED files
           ELSE IF file.kind = "null" \/ ~writeOk
           THEN /\ post' = PostDone(500, "Failed to update monthly silver price")
                /\ UNCHANGED files
           ELSE LET monthlyPrices == IF file.kind = "object" THEN file.map ELSE EmptyMap
                    stored == [price_oz |-> data.price_oz,
                               price_gram_24k |-> data.price_gram_24k,
                               currency |-> IF data.currency = "" THEN "CAD"
                                            ELSE data.currency,
                               provider |-> data.provider]
                IN  /\ files' = [files EXCEPT !["silver"] =
                                   File("object",
                                        Upsert(monthlyPrices, monthKey(today),
                                               SnapshotRecord(stored, today, now)))]
                    /\ post' = PostDone(200, "")
    /\ UNCHANGED <<env, now, today, priceCache, req>>

----------------------------------------------------------------------------
(* GET /api/nisab.  One revision of the handler fetches /api/gold?grams=true *)
(* of its own server (that fetch is request nisab.r); the other has a       *)
(* provider loop of its own and is the route "nisab" of GET above.          *)

NoNisab == [pc |-> "idle", r |-> 0, debug |-> FALSE, resp |-> NoResponse]

\* the nisab handler from the request to its fetch of the gold route, which
\* the gold GET handler accepts as request r
NISAB(r, debug) ==
    /\ nisab.pc = "idle"
    /\ GET(r, "gold", TRUE, debug)
    /\ nisab' = [NoNisab EXCEPT !.pc = "await", !.r = r, !.debug = debug]

\* the nisab handler from the response of the gold route to its own
\* response; delivered is whether the fetch resolved
NisabResume(delivered) ==
    /\ nisab.pc = "await"
    /\ req[nisab.r].pc = "done"
    /\ LET goldResponse == req[nisab.r].resp
           goldData == goldResponse.body
       IN  nisab' = [nisab EXCEPT
             !.pc = "done",
             !.resp =
                IF ~delivered
                THEN [status |-> 500, body |-> [error |-> "Failed to calculate nisab value"]]
                ELSE IF goldResponse.status # 200
                THEN [status |-> goldResponse.status,
                      body |-> [error |-> "Failed to fetch gold price"]]
                ELSE [status |-> 200,
                      body |-> [nisab |-> goldData.price_gram_24k * NISAB_GRAMS,
                                price_gram_24k |-> goldData.price_gram_24k,
                                nisab_grams |-> NISAB_GRAMS,
                                currency |-> goldData.currency,
                                provider |-> goldData.provider,
                                type |-> "Gold",
                                cached |-> goldData.cached]]]
    /\ UNCHANGED <<env, now, today, priceCache, files, req>>

----------------------------------------------------------------------------
(* Snapshot writes of several server processes.  The deployment may run     *)
(* more than one process over one public/ directory; each runs              *)
(* updateMonthlyPriceFile (or the write of the update-monthly POST) as a    *)
(* readFileSync, an update in memory and a writeFileSync, and the           *)
(* operating system may run another process between the two calls.          *)

Writers == {1, 2}

NoWriter ==
    [pc |-> "idle", inst |-> "gold", loaded |-> File("unreadable", EmptyMap),
     key |-> <<>>, monthlyPrices |-> EmptyMap, wrote |-> FALSE, seq |-> 0]

\* the payloads a process may have resolved
Resolved(inst) ==
    {Payload(p, GramOfOunce(p), "goldapi.io (GOLD_API_KEY_1)") : p \in Quotes(inst)}
    \cup {Payload(p, GramOfOunce(p), "fcsapi") : p \in OtherQuotes(inst)}

\* readFileSync and JSON.parse, then monthlyPrices[monthKey] = {...}; on
\* null the assignment throws and the process writes nothing
Load(w, inst, data) ==
    /\ writers[w].pc = "idle"
    /\ \A o \in Writers : o < w => writers[o].pc # "idle"
    /\ LET file == files[inst]
           monthlyPrices == IF file.kind = "object" THEN file.map ELSE EmptyMap
       IN  writers' = [writers EXCEPT ![w] =
              [pc |-> IF file.kind = "null" THEN "done" ELSE "loaded",
               inst |-> inst, loaded |-> file, key |-> monthKey(today),
               monthlyPrices |-> Upsert(monthlyPrices, monthKey(today),
                                        SnapshotRecord(data, today, now)),
               wrote |-> FALSE, seq |-> 0]]
    /\ UNCHANGED <<env, now, today, priceCache, files, req, post, nisab>>

\* variant of writeFileSync: the process holds a lock and puts its month's
\* record into the file as it is now
writeFileSyncLocked(file, wr) ==
    File("object", Upsert(IF file.kind = "object" THEN file.map ELSE EmptyMap,
                          wr.key, wr.monthlyPrices[wr.key]))

\* the file after writeFileSync(filePath, JSON.stringify(monthlyPrices))
writeFileSync(file, wr) == File("object", wr.monthlyPrices)

\* writeFileSync, which may throw; the fault is swallowed
Write(w, writeOk) ==
    /\ writers[w].pc = "loaded"
    /\ LET wr == writers[w] IN
       /\ files' = IF writeOk
                   THEN [files EXCEPT ![wr.inst] = writeFileSync(@, wr)]
                   ELSE files
       /\ writers' = [writers EXCEPT ![w] =
             [wr EXCEPT !.pc = "done", !.wrote = writeOk,
                        !.seq = IF writeOk
                                THEN 1 + Cardinality({o \in Writers : writers[o].wrote})
                                ELSE 0]]
    /\ UNCHANGED <<env, now, today, priceCache, req, post, nisab>>

\* time passes while a process is between its two calls
WriterTick(rollover) ==
    /\ now < MaxTicks * ClockStep
    /\ \E w \in Writers : writers[w].pc = "loaded"
    /\ rollover => Rollovers(today) < MaxRollovers
    /\ now' = now + ClockStep
    /\ today' = IF rollover THEN NextMonth(today) ELSE today
    /\ UNCHANGED <<env, priceCache, files, req, post, nisab, writers>>

----------------------------------------------------------------------------
(* The clock *)

Tick(rollover) ==
    /\ now < MaxTicks * ClockStep
    /\ \E r \in Requests : req[r].pc # "idle"
    /\ \E r \in Requests : req[r].pc # "done"
    /\ rollover => Rollovers(today) < MaxRollovers
    /\ now' = now + ClockStep
    /\ today' = IF rollover THEN NextMonth(today) ELSE today
    /\ UNCHANGED <<env, priceCache, files, req>>

----------------------------------------------------------------------------
(* Initial states *)

Configs ==
    {[gold |-> <<TRUE, FALSE, TRUE>>, metals |-> FALSE, fcs |-> TRUE,
      secret |-> "s3cret", odd |-> FALSE],
     [gold |-> <<FALSE, FALSE, FALSE>>, metals |-> TRUE, fcs |-> FALSE,
      secret |-> "", odd |-> FALSE]}

\* a deployment whose goldapi.io sends the odd bodies as well
OddConfigs ==
    {[gold |-> <<TRUE, FALSE, FALSE>>, metals |-> FALSE, fcs |-> TRUE,
      secret |-> "", odd |-> TRUE]}

\* the month before d
PrevMonth(d) ==
    IF d.month0 = 0 THEN [year |-> d.year - 1, month0 |-> 11]
    ELSE [year |-> d.year, month0 |-> d.month0 - 1]

\* the snapshot files as the deployment or an earlier run left them: both
\* unreadable, both null, both {}, or both holding last month's record
InitKinds == {"unreadable", "null", "object", "stored"}

InitFile(inst, kind) ==
    IF kind = "stored"
    THEN updateMonthlyPriceFile(File("unreadable", EmptyMap),
                                Payload(CHOOSE p \in OtherQuotes(inst) : TRUE,
                                        GramOfOunce(CHOOSE p \in OtherQuotes(inst) : TRUE),
                                        "fcsapi"),
                                PrevMonth(StartDay), 0, TRUE)
    ELSE File(kind, EmptyMap)

InitOdd ==
    /\ env \in OddConfigs
    /\ now = 0
    /\ today = StartDay
    /\ priceCache = [k \in CacheKeys |-> NoEntry]
    /\ \E kind \in InitKinds : files = [inst \in Instruments |-> InitFile(inst, kind)]
    /\ req = [r \in Requests |-> Idle]
    /\ post = NoPost
    /\ nisab = NoNisab
    /\ writers = [w \in Writers |-> NoWriter]

Init ==
    /\ env \in Configs
    /\ now = 0
    /\ today = StartDay
    /\ priceCache = [k \in CacheKeys |-> NoEntry]
    /\ \E kind \in InitKinds : files = [inst \in Instruments |-> InitFile(inst, kind)]
    /\ req = [r \in Requests |-> Idle]
    /\ post = NoPost
    /\ nisab = NoNisab
    /\ writers = [w \in Writers |-> NoWriter]

\* no request is between two turns of its handler
Quiet == \A r \in Requests : req[r].pc # "fetch"

\* the requests of a run go to one route: the routes share no state, and
\* the two revisions of the silver route are never deployed together
SameRoute(route) == \A r \in Requests : req[r].pc # "idle" => req[r].route = route

\* the requests of a run ask for the same unit
SameUnit(grams) == \A r \in Requests : req[r].pc # "idle" => req[r].grams = grams

\* the POST handler is not waiting for the silver route
PostQuiet == post.pc # "await"

\* a POST that is turned away touches nothing the other handlers read or
\* write, so its place in a run is immaterial: it comes last
Timely(secret) == Authorized(secret) \/ \A r \in Requests : req[r].pc = "done"

\* the price routes; the server handles one request at a time
Next ==
    \/ \E r \in Requests, route \in Routes, grams \in BOOLEAN, debug \in BOOLEAN :
          /\ Quiet /\ PostQuiet /\ SameRoute(route) /\ SameUnit(grams)
          /\ GET(r, route, grams, debug)
          /\ UNCHANGED <<post, nisab, writers>>
    \/ \E r \in Requests, writeOk \in BOOLEAN :
          /\ req[r].pc = "fetch"
          /\ \E reply \in Awaited(req[r]) : Resume(r, reply, writeOk)
          /\ UNCHANGED <<post, nisab, writers>>
    \/ \E rollover \in BOOLEAN : Tick(rollover) /\ UNCHANGED <<post, nisab, writers>>

Spec == Init /\ [][Next]_vars

\* some awaited fetch comes back
Returns ==
    \E r \in Requests, writeOk \in BOOLEAN :
        /\ req[r].pc = "fetch"
        /\ \E reply \in Awaited(req[r]) : Resume(r, reply, writeOk)
        /\ UNCHANGED <<post, nisab, writers>>

\* the price routes, ounces asked for, while the clock stands
NextLive ==
    \/ \E r \in Requests, route \in Routes, debug \in BOOLEAN :
          /\ Quiet /\ PostQuiet /\ SameRoute(route)
          /\ GET(r, route, FALSE, debug)
          /\ UNCHANGED <<post, nisab, writers>>
    \/ Returns

\* the price routes when every fetch resolves or rejects in the end
SpecLive == Init /\ [][NextLive]_vars /\ WF_vars(Returns)

\* the price routes against the odd upstream
SpecOdd == InitOdd /\ [][Next]_vars

\* the price routes and the update-monthly route
NextPost ==
    \/ Next
    \/ \E r \in Requests, route \in Routes, secret \in Secrets :
          /\ Quiet /\ Timely(secret) /\ SameRoute(route) /\ SameUnit(FALSE)
          /\ POST(r, route, secret)
          /\ UNCHANGED <<nisab, writers>>
    \/ \E writeOk \in BOOLEAN : PostResume(writeOk) /\ UNCHANGED <<nisab, writers>>

SpecPost == Init /\ [][NextPost]_vars

\* the nisab handler is not waiting for the gold route
NisabQuiet == nisab.pc # "await"

\* the gold route and the nisab route: a run has one revision of the nisab
\* handler, and the gold requests ask for grams as the nisab handler does
NextNisab ==
    \/ \E r \in Requests, debug \in BOOLEAN :
          /\ Quiet /\ NisabQuiet
          /\ GET(r, "gold", TRUE, debug)
          /\ UNCHANGED <<post, nisab, writers>>
    \/ \E r \in Requests, debug \in BOOLEAN :
          /\ Quiet /\ nisab.pc = "idle"
          /\ GET(r, "nisab", FALSE, debug)
          /\ UNCHANGED <<post, nisab, writers>>
    \/ \E r \in Requests, debug \in BOOLEAN :
          /\ Quiet /\ \A o \in Requests : req[o].route # "nisab"
          /\ NISAB(r, debug)
          /\ UNCHANGED <<post, writers>>
    \/ \E delivered \in BOOLEAN : NisabResume(delivered) /\ UNCHANGED <<post, writers>>
    \/ \E r \in Requests, writeOk \in BOOLEAN :
          /\ req[r].pc = "fetch"
          /\ \E reply \in Awaited(req[r]) : Resume(r, reply, writeOk)
          /\ UNCHANGED <<post, nisab, writers>>
    \/ \E rollover \in BOOLEAN : Tick(rollover) /\ UNCHANGED <<post, nisab, writers>>

SpecNisab == Init /\ [][NextNisab]_vars

\* requests overlap
NextConcurrent ==
    \/ \E r \in Requests, route \in Routes, grams \in BOOLEAN, debug \in BOOLEAN :
          /\ SameRoute(route) /\ SameUnit(grams)
          /\ GET(r, route, grams, debug)
          /\ UNCHANGED <<post, nisab, writers>>
    \/ \E r \in Requests, writeOk \in BOOLEAN :
          /\ req[r].pc = "fetch"
          /\ \E reply \in Awaited(req[r]) : Resume(r, reply, writeOk)
          /\ UNCHANGED <<post, nisab, writers>>
    \/ \E rollover \in BOOLEAN : Tick(rollover) /\ UNCHANGED <<post, nisab, writers>>

SpecConcurrent == Init /\ [][NextConcurrent]_vars

\* requests without debug overlap
NextOverlap ==
    \/ \E r \in Requests, route \in Routes, grams \in BOOLEAN :
          /\ SameRoute(route) /\ SameUnit(grams)
          /\ GET(r, route, grams, FALSE)
          /\ UNCHANGED <<post, nisab, writers>>
    \/ \E r \in Requests, writeOk \in BOOLEAN :
          /\ req[r].pc = "fetch"
          /\ \E reply \in Awaited(req[r]) : Resume(r, reply, writeOk)
          /\ UNCHANGED <<post, nisab, writers>>
    \/ \E rollover \in BOOLEAN : Tick(rollover) /\ UNCHANGED <<post, nisab, writers>>

SpecOverlap == Init /\ [][NextOverlap]_vars

\* the gold route and the silver route deployed together, one request at a
\* time, in ounces and without debug
NextBoth ==
    \/ \E r \in Requests, route \in {"gold", "silver"} :
          /\ Quiet
          /\ GET(r, route, FALSE, FALSE)
          /\ UNCHANGED <<post, nisab, writers>>
    \/ \E r \in Requests, writeOk \in BOOLEAN :
          /\ req[r].pc = "fetch"
          /\ \E reply \in Awaited(req[r]) : Resume(r, reply, writeOk)
          /\ UNCHANGED <<post, nisab, writers>>
    \/ \E rollover \in BOOLEAN : Tick(rollover) /\ UNCHANGED <<post, nisab, writers>>

SpecBoth == Init /\ [][NextBoth]_vars

\* snapshot writes of two server processes, both on one instrument's file
NextWriters ==
    \/ \E w \in Writers, inst \in Instruments :
          /\ \A o \in Writers : writers[o].pc # "idle" => writers[o].inst = inst
          /\ \E data \in Resolved(inst) : Load(w, inst, data)
    \/ \E w \in Writers, writeOk \in BOOLEAN : Write(w, writeOk)
    \/ \E rollover \in BOOLEAN : WriterTick(rollover)

SpecWriters == Init /\ [][NextWriters]_vars

----------------------------------------------------------------------------
(* Vocabulary of the properties *)

\* the cache key and the snapshot file of the route request record q is on
KeyOf(q) == CacheOf(q.route)
FileOf(q) == files[Instrument(q.route)]

\* request r is accepted in this step
Accepted(r) == req[r].pc = "idle" /\ req'[r].pc # "idle"

\* request r leaves the provider loop with no payload in this step
Exhausts(r) ==
    req[r].pc # "done" /\ req'[r].pc = "done" /\ req'[r].via \notin {"cache", "live"}

\* a 200 response with these prices, this provider tag and this cached flag
Serves(q, oz, gram, currency, tag, cached) ==
    q.resp = [status |-> 200,
              body |-> [price |-> IF q.grams THEN gram ELSE oz,
                        price_oz |-> oz, price_gram_24k |-> gram,
                        currency |-> currency, provider |-> tag, cached |-> cached]]

\* the provider a tag names
ProviderOfTag(tag) ==
    IF tag \in {"metals-api", "fcsapi", "goldprice.org"} THEN tag
    ELSE IF tag \in {"goldapi.io (GOLD_API_KEY_1)", "goldapi.io (GOLD_API_KEY_2)",
                     "goldapi.io (GOLD_API_KEY_3)"} THEN "goldapi.io"
    ELSE "unknown"

\* months since year 0
Chron(d) == d.year * 12 + d.month0

----------------------------------------------------------------------------
(* C1: a resolve without debug that finds a cache entry at most 600 s old   *)
(* returns that entry's payload with cached=true in the same turn, having   *)
(* invoked no adapter, issued no fetch and not read the snapshot store.     *)
C1_CacheHitServes ==
    [][\A r \in Requests :
         LET q == req'[r]
             e == priceCache[KeyOf(q)]
         IN  (Accepted(r) /\ ~q.debug /\ e.present /\ now - e.ts <= 600 * 1000)
             => /\ q.pc = "done"
                /\ Serves(q, e.data.price_oz, e.data.price_gram_24k, e.data.currency,
                          e.data.provider, TRUE)
                /\ q.tried = <<>> /\ q.calls = <<>> /\ ~q.snapRead]_vars

\* a request was served from a cache entry exactly 600 s old
C1_Witness ==
    \E r \in Requests :
        /\ req[r].via = "cache" /\ req[r].resp.body.cached
        /\ priceCache[KeyOf(req[r])].present
        /\ now - priceCache[KeyOf(req[r])].ts = 600 * 1000

(* C2: a resolve in which a provider succeeds returns cached=false, and     *)
(* when it returns the cache entry of the instrument holds the returned     *)
(* payload with the timestamp of that moment and the current month's        *)
(* snapshot record holds it too, unless the snapshot write failed.          *)
C2_LiveSuccessWritesThrough ==
    [][\A r \in Requests :
         LET q    == req'[r]
             b    == q.resp.body
             f    == files'[Instrument(q.route)]
         IN  (req[r].pc = "fetch" /\ q.via = "live")
             => /\ q.resp.status = 200 /\ ~b.cached
                /\ priceCache'[KeyOf(q)] =
                       [present |-> TRUE, ts |-> now,
                        data |-> Payload(b.price_oz, b.price_gram_24k, b.provider)]
                /\ q.snap # "failed"
                   => /\ f.kind = "object"
                      /\ monthKey(today) \in DOMAIN f.map
                      /\ f.map[monthKey(today)].price_oz = b.price_oz
                      /\ f.map[monthKey(today)].price_gram_24k = b.price_gram_24k
                      /\ f.map[monthKey(today)].provider = b.provider]_vars

(* C3: in a resolve that a provider serves, the adapters were invoked in    *)
(* the order of the providers array, each before the serving one returned   *)
(* null, none after it was invoked, and the tag of the response names it.   *)
C3_FirstSuccessWins ==
    \A r \in Requests :
        LET q  == req[r]
            ps == providers(q.route)
            n  == Len(q.tried)
        IN  /\ n <= Len(ps) /\ q.tried = SubSeq(ps, 1, n)
            /\ \A c \in 1..Len(q.calls) : \E j \in 1..n : q.calls[c][1] = q.tried[j]
            /\ \A j \in 1..Len(q.outcomes) : q.outcomes[j] = "payload" => j = n
            /\ q.via = "live"
               => /\ n >= 1 /\ Len(q.outcomes) = n
                  /\ \A j \in 1..(n - 1) : q.outcomes[j] = "null"
                  /\ q.outcomes[n] = "payload"
                  /\ ProviderOfTag(q.resp.body.provider) = ps[n]

\* the first provider was fetched and failed, a later one served
C3_Witness ==
    \E r \in Requests :
        /\ req[r].via = "live" /\ Len(req[r].tried) >= 2
        /\ req[r].calls[1][1] = req[r].tried[1]
        /\ req[r].resp.body.provider # "goldapi.io (GOLD_API_KEY_1)"

(* C4: when the provider loop ends with no payload and the snapshot file    *)
(* holds a record for the current month, the response is 200 with that      *)
(* record's prices, provider "monthly-fallback" and cached=false, although  *)
(* the stored record has cached: true.                                      *)
C4_CurrentMonthFallback ==
    [][\A r \in Requests :
         LET q == req'[r]
             f == FileOf(q)
         IN  (Exhausts(r) /\ f.kind = "object" /\ monthKey(today) \in DOMAIN f.map)
             => LET rec == f.map[monthKey(today)]
                IN  /\ Serves(q, rec.price_oz, rec.price_gram_24k, rec.currency,
                              "monthly-fallback", FALSE)
                    /\ rec.cached
                    /\ q.via = "fallback"
                    /\ Len(q.tried) = Len(providers(q.route))]_vars

\* a request was served the current month's record
C4_Witness ==
    \E r \in Requests :
        /\ req[r].via = "fallback"
        /\ FileOf(req[r]).kind = "object"
        /\ monthKey(today) \in DOMAIN FileOf(req[r]).map
        /\ req[r].resp.body.price_oz = FileOf(req[r]).map[monthKey(today)].price_oz

(* C5: when the provider loop ends with no payload and the snapshot file    *)
(* is missing, corrupt or an empty mapping, the response has status 500     *)
(* and an error field.                                                      *)
C5_NoSnapshotFails ==
    [][\A r \in Requests :
         LET q == req'[r]
             f == FileOf(q)
         IN  (Exhausts(r) /\ (f.kind = "unreadable"
                              \/ (f.kind = "object" /\ DOMAIN f.map = {})))
             => /\ q.resp.status = 500
                /\ "error" \in DOMAIN q.resp.body
                /\ q.resp.body.error # ""
                /\ q.via = "failed"]_vars

\* a request failed on an unreadable snapshot file
C5_Witness ==
    \E r \in Requests :
        /\ req[r].via = "failed" /\ req[r].resp.status = 500
        /\ FileOf(req[r]).kind = "unreadable"

(* C6: a resolve whose live providers all fail is still answered with a     *)
(* price from the monthly fallback, never with an error response.           *)
C6_NeverFullyFails ==
    \A r \in Requests :
        (req[r].pc = "done" /\ req[r].via \notin {"cache", "live"})
        => req[r].via = "fallback" /\ req[r].resp.status = 200

\* the price fields of two responses agree
SamePrices(x, y) ==
    /\ x.status = 200 /\ y.status = 200
    /\ x.body.price_oz = y.body.price_oz
    /\ x.body.price_gram_24k = y.body.price_gram_24k
    /\ x.body.currency = y.body.currency
    /\ x.body.provider = y.body.provider

(* C7 as stated: of two successive resolves of one instrument without       *)
(* debug, the first answered with a price and the second starting within    *)
(* 600 s of the completion of the first, the second returns the first's     *)
(* price_oz, price_gram_24k, currency and provider with cached=true.        *)
(* Every completion is at a time >= 0, so a start at a time <= 600 s is     *)
(* within 600 s of it.                                                      *)
C7_SecondResolveRepeatsFirst ==
    [][\A a, b \in Requests :
         (/\ a # b /\ req[a].pc = "done" /\ ~req[a].debug
          /\ req[a].resp.status = 200
          /\ Accepted(b) /\ ~req'[b].debug
          /\ Instrument(req'[b].route) = Instrument(req[a].route)
          /\ now <= 600 * 1000)
         => /\ req'[b].pc = "done"
            /\ SamePrices(req[a].resp, req'[b].resp)
            /\ req'[b].resp.body.cached]_vars

(* C7 amended: when the first resolve returned a live provider's payload    *)
(* without debug, and the second starts within 600 s of that completion     *)
(* with no other resolve accepted, the second returns the same price_oz,    *)
(* price_gram_24k, currency and provider with cached=true.                  *)
C7_SecondResolveRepeatsLive ==
    [][\A a, b \in Requests :
         (/\ a # b /\ req[a].pc = "done" /\ req[a].via = "live" /\ ~req[a].debug
          /\ \A c \in Requests \ {a, b} : req[c].pc = "idle"
          /\ Accepted(b) /\ ~req'[b].debug
          /\ Instrument(req'[b].route) = Instrument(req[a].route)
          /\ now - req[a].cachedAt <= 600 * 1000)
         => /\ req'[b].pc = "done"
            /\ SamePrices(req[a].resp, req'[b].resp)
            /\ req'[b].resp.body.cached]_vars

\* a live payload completed after the start of the run was repeated by the
\* next resolve, 600 s later
C7_Witness ==
    \E a, b \in Requests :
        /\ req[a].via = "live" /\ ~req[a].debug /\ req[a].cachedAt > 0
        /\ req[b].via = "cache" /\ SamePrices(req[a].resp, req[b].resp)
        /\ now - req[a].cachedAt = 600 * 1000

(* C8: a read of the cache returns an entry whose age is at most 600 s and  *)
(* leaves it in place; a read of an older entry returns nothing and         *)
(* removes it; an entry leaves the map in no other step, so an expired      *)
(* entry stays until such a read.                                           *)
C8_LazyExpiry ==
    [][\A k \in CacheKeys :
         priceCache[k].present
         => LET age == now - priceCache[k].ts
                Reads(r) == Accepted(r) /\ ~req'[r].debug /\ KeyOf(req'[r]) = k
            IN  /\ \A r \in Requests :
                     Reads(r)
                     => IF age <= 600 * 1000
                        THEN /\ req'[r].via = "cache"
                             /\ req'[r].resp.body.price_oz = priceCache[k].data.price_oz
                             /\ priceCache'[k] = priceCache[k]
                        ELSE /\ req'[r].via # "cache"
                             /\ ~priceCache'[k].present
                /\ ~priceCache'[k].present
                   => age > 600 * 1000 /\ \E r \in Requests : Reads(r)]_vars

\* the entry a live resolve wrote has been removed by the read of a later
\* resolve, which is waiting for its provider
C8_Witness ==
    \E a, b \in Requests :
        /\ req[a].via = "live" /\ ~req[a].debug
        /\ req[b].pc = "fetch" /\ ~req[b].debug
        /\ Instrument(req[a].route) = Instrument(req[b].route)
        /\ now - req[a].cachedAt > 600 * 1000
        /\ ~priceCache[KeyOf(req[a])].present

(* C9: the snapshot lookup returns the current month's record when there    *)
(* is one; otherwise the record of the latest stored month, which is        *)
(* earlier than the current month; and nothing only when no month is        *)
(* stored.                                                                  *)
C9_SnapshotSelection ==
    [][\A r \in Requests :
         Exhausts(r)
         => LET q == req'[r]
                f == FileOf(q)
                Found(rec) ==
                    /\ q.via = "fallback"
                    /\ Serves(q, rec.price_oz, rec.price_gram_24k, rec.currency,
                              "monthly-fallback", FALSE)
            IN  IF f.kind # "object" \/ DOMAIN f.map = {}
                THEN q.via = "failed"
                ELSE IF \E k \in DOMAIN f.map : Chron(f.map[k].timestamp) = Chron(today)
                THEN \E k \in DOMAIN f.map :
                        /\ Chron(f.map[k].timestamp) = Chron(today)
                        /\ Found(f.map[k])
                ELSE \E k \in DOMAIN f.map :
                        /\ \A o \in DOMAIN f.map :
                              Chron(f.map[o].timestamp) <= Chron(f.map[k].timestamp)
                        /\ Chron(f.map[k].timestamp) < Chron(today)
                        /\ Found(f.map[k])]_vars

\* a request was served the later of two stored months, neither of them the
\* current one
C9_Witness ==
    \E r \in Requests :
        LET f == FileOf(req[r])
        IN  /\ req[r].via = "fallback"
            /\ f.kind = "object"
            /\ Cardinality(DOMAIN f.map) >= 2
            /\ monthKey(today) \notin DOMAIN f.map
            /\ \E k \in DOMAIN f.map :
                  /\ f.map[k].price_oz = req[r].resp.body.price_oz
                  /\ \E o \in DOMAIN f.map : f.map[o].price_oz # f.map[k].price_oz

(* C10: a resolve with debug never reads the cache: it leaves the map as    *)
(* it is, goes to the first adapter whatever the cache holds, and never     *)
(* returns cached=true.                                                     *)
C10_DebugBypassesCache ==
    [][\A r \in Requests :
         /\ (Accepted(r) /\ req'[r].debug)
            => /\ priceCache' = priceCache
               /\ req'[r].via # "cache"
               /\ Len(req'[r].tried) >= 1
               /\ req'[r].tried[1] = providers(req'[r].route)[1]
         /\ (req'[r].pc = "done" /\ req'[r].debug /\ req'[r].resp.status = 200)
            => ~req'[r].resp.body.cached]_vars

\* a debug resolve went to the providers and was answered while the cache
\* held a fresh entry of its instrument
C10_Witness ==
    \E a, b \in Requests :
        /\ req[a].via = "live" /\ ~req[a].debug
        /\ req[b].debug /\ req[b].pc = "done" /\ req[b].resp.status = 200
        /\ Instrument(req[a].route) = Instrument(req[b].route)
        /\ priceCache[KeyOf(req[b])].present
        /\ now - priceCache[KeyOf(req[b])].ts <= 600 * 1000

(* C11: a debug resolve in which a provider succeeds still writes the       *)
(* payload to the request cache, so that a non-debug resolve following it   *)
(* within 600 s is a cache hit on that payload, and still upserts the       *)
(* current month's snapshot record.  Every completion is at a time >= 0,    *)
(* so a start at a time <= 600 s is within 600 s of it.                     *)
C11_DebugKeepsWritePaths ==
    [][\A r \in Requests :
         /\ (req[r].pc = "fetch" /\ req'[r].via = "live" /\ req'[r].debug)
            => LET q == req'[r]
                   b == q.resp.body
                   f == files'[Instrument(q.route)]
               IN  /\ priceCache'[KeyOf(q)].present
                   /\ priceCache'[KeyOf(q)].data.price_oz = b.price_oz
                   /\ priceCache'[KeyOf(q)].data.provider = b.provider
                   /\ q.snap = "written"
                      => /\ monthKey(today) \in DOMAIN f.map
                         /\ f.map[monthKey(today)].price_oz = b.price_oz
         /\ \A a \in Requests \ {r} :
              (/\ req[a].via = "live" /\ req[a].debug
               /\ \A c \in Requests \ {a, r} : req[c].pc = "idle"
               /\ Accepted(r) /\ ~req'[r].debug
               /\ Instrument(req'[r].route) = Instrument(req[a].route)
               /\ now <= 600 * 1000)
              => /\ req'[r].via = "cache"
                 /\ SamePrices(req[a].resp, req'[r].resp)]_vars

(* C12: the per-provider diagnostics are collected and returned only on    *)
(* request: the failure response of a resolve without debug has no          *)
(* diagnostics list and such a resolve collects none; the failure response  *)
(* of a resolve with debug carries one {provider, message} entry for each   *)
(* provider, in the order of the providers array.                           *)
C12_DiagnosticsOnRequest ==
    [][\A r \in Requests :
         LET q  == req'[r]
             ps == providers(q.route)
         IN  /\ ~q.debug => q.errors = <<>>
             /\ (Exhausts(r) /\ q.via = "failed")
                => IF q.debug
                   THEN /\ DOMAIN q.resp.body = {"error", "debug"}
                        /\ Len(q.resp.body.debug) = Len(ps)
                        /\ \A j \in 1..Len(ps) :
                              /\ q.resp.body.debug[j].provider = ps[j]
                              /\ q.resp.body.debug[j].message = "No data in response"
                   ELSE DOMAIN q.resp.body = {"error"}]_vars

\* a debug resolve failed and its response lists the providers
C12_Witness ==
    \E r \in Requests :
        /\ req[r].via = "failed" /\ req[r].debug
        /\ Len(req[r].resp.body.debug) >= 3

(* C13: a failing snapshot write is never surfaced: whenever an adapter     *)
(* returns a payload the resolve answers 200 with that payload's prices     *)
(* and provider and cached=false, and the cache is updated as debug         *)
(* dictates, whatever the state of the snapshot file and whether or not     *)
(* the file write succeeds.                                                 *)
C13_WriteFailureNotSurfaced ==
    [][\A r \in Requests :
         req[r].pc = "fetch" /\ req'[r] # req[r]
         => LET q == req[r]
                k == KeyOf(q)
                Returned(reply) ==
                    AdapterStep(env, q.route, providers(q.route)[q.i],
                                q.stage, q.carry, reply)
            IN  \E reply \in Awaited(q) :
                  /\ Returned(reply).t = "payload" <=> req'[r].via = "live"
                  /\ Returned(reply).t = "payload"
                     => LET data == Returned(reply).data
                        IN  /\ Serves(req'[r], data.price_oz, data.price_gram_24k,
                                      data.currency, data.provider, FALSE)
                            /\ priceCache' =
                                 IF q.debug THEN priceCache
                                 ELSE [priceCache EXCEPT ![k] =
                                         [present |-> TRUE, ts |-> now, data |-> data]]]_vars

\* a resolve whose snapshot write failed was answered with the provider's
\* payload, which is in the cache
C13_Witness ==
    \E r \in Requests :
        /\ req[r].via = "live" /\ req[r].snap = "failed" /\ ~req[r].debug
        /\ req[r].resp.status = 200 /\ ~req[r].resp.body.cached
        /\ FileOf(req[r]).kind = "object"
        /\ priceCache[KeyOf(req[r])].present
        /\ priceCache[KeyOf(req[r])].data.price_oz = req[r].resp.body.price_oz

\* the month keys a snapshot file holds
StoredMonths(file) == IF file.kind = "object" THEN DOMAIN file.map ELSE {}

(* C14: a snapshot write upserts the current month's key alone: whenever a  *)
(* snapshot file changes, by a resolve or by the update-monthly route, it   *)
(* holds the months it held and the current month, the records of the       *)
(* other months are as they were, and the current month's record is the     *)
(* payload just served; no step removes a stored month.                     *)
C14_UpsertCurrentMonthOnly ==
    [][\A inst \in Instruments :
         LET old == files[inst]
             new == files'[inst]
             cur == monthKey(today)
         IN  /\ StoredMonths(old) \subseteq StoredMonths(new)
             /\ old # new
                => /\ new.kind = "object"
                   /\ DOMAIN new.map = StoredMonths(old) \cup {cur}
                   /\ \A k \in StoredMonths(old) \ {cur} : new.map[k] = old.map[k]
                   /\ \/ \E r \in Requests :
                           /\ req[r].pc = "fetch" /\ req'[r].via = "live"
                           /\ Instrument(req'[r].route) = inst
                           /\ new.map[cur].price_oz = req'[r].resp.body.price_oz
                           /\ new.map[cur].provider = req'[r].resp.body.provider
                      \/ /\ post.pc = "await" /\ post'.status = 200 /\ inst = "silver"
                         /\ new.map[cur].price_oz = req[post.r].resp.body.price_oz
                         /\ new.map[cur].provider = req[post.r].resp.body.provider]_vars

\* two resolves wrote the same month one after the other, beside last
\* month's record: the file holds the second payload and last month's record
C14_Witness ==
    \E a, b \in Requests :
        LET f == FileOf(req[b])
        IN  /\ req[a].via = "live" /\ req[a].snap = "written"
            /\ req[b].via = "live" /\ req[b].snap = "written"
            /\ req[a].resp.body.price_oz # req[b].resp.body.price_oz
            /\ f.kind = "object"
            /\ DOMAIN f.map = {monthKey(PrevMonth(StartDay)), monthKey(today)}
            /\ f.map[monthKey(today)].price_oz = req[b].resp.body.price_oz
            /\ f.map[monthKey(PrevMonth(StartDay))].provider = "fcsapi"

(* C15: every record the snapshot store holds is the payload of a           *)
(* successful live provider lookup: its provider is the tag of a live       *)
(* provider, never "monthly-fallback".                                      *)
C15_StoredRecordsAreLive ==
    \A inst \in Instruments :
        \A k \in StoredMonths(files[inst]) :
            ProviderOfTag(files[inst].map[k].provider)
                \in {"goldapi.io", "metals-api", "fcsapi", "goldprice.org"}

(* C16: a snapshot file that is missing or corrupt counts as an empty       *)
(* mapping and is no error for the caller: a resolve that exhausts its      *)
(* providers then gets nothing from the snapshot and ends in the            *)
(* structured failure, and a resolve that a provider serves is answered as  *)
(* usual while its snapshot write, if the file write succeeds, leaves a     *)
(* mapping of the current month alone.                                      *)
C16_UnreadableFileIsEmpty ==
    [][\A r \in Requests :
         LET q == req'[r]
             f == FileOf(q)
         IN  (req[r].pc # "done" /\ q.pc = "done" /\ q.via # "cache"
              /\ f.kind = "unreadable")
             => IF q.via = "live"
                THEN /\ q.resp.status = 200
                     /\ (WritesSnapshot(q.route) /\ q.snap = "written")
                        => LET new == files'[Instrument(q.route)]
                           IN  /\ new.kind = "object"
                               /\ DOMAIN new.map = {monthKey(today)}
                               /\ new.map[monthKey(today)].price_oz = q.resp.body.price_oz
                               /\ new.map[monthKey(today)].provider = q.resp.body.provider
                     /\ (WritesSnapshot(q.route) /\ q.snap # "written")
                        => files' = files
                ELSE /\ q.via = "failed" /\ q.snapRead
                     /\ q.resp.status = 500
                     /\ "error" \in DOMAIN q.resp.body
                     /\ files' = files]_vars

\* with the file unreadable, one resolve ended in the structured failure
\* and a debug resolve after it was served by a provider whose snapshot
\* write failed, so the file is unreadable still
C16_Witness ==
    \E a, b \in Requests :
        /\ req[a].via = "failed" /\ ~req[a].debug
        /\ req[b].via = "live" /\ req[b].snap = "failed"
        /\ FileOf(req[a]).kind = "unreadable"
        /\ Instrument(req[a].route) = Instrument(req[b].route)

\* a nisab response body agrees with a gold payload and cached flag
NisabAgrees(body, data, cached) ==
    /\ body.price_gram_24k = data.price_gram_24k
    /\ body.currency = data.currency
    /\ body.provider = data.provider
    /\ body.cached = cached

(* C17: every successful nisab response has nisab = price_gram_24k * 85     *)
(* and nisab_grams = 85, and its price_gram_24k, currency, provider and     *)
(* cached are those the gold resolve returns for the same request time:     *)
(* the response of the gold resolve the handler made, and, when the gold    *)
(* route's cache entry is fresh as the request arrives (so that the gold    *)
(* resolve is a hit on it), that entry with cached=true.                    *)
C17_NisabConsistentWithGold ==
    [][/\ \A r \in Requests :
            LET q == req'[r]
                e == priceCache[CacheOf("gold")]
            IN  /\ (q.route = "nisab" /\ req[r].pc # "done" /\ q.pc = "done"
                    /\ q.resp.status = 200)
                   => /\ q.resp.body.nisab = q.resp.body.price_gram_24k * 85
                      /\ q.resp.body.nisab_grams = 85
                /\ (q.route = "nisab" /\ Accepted(r) /\ ~q.debug
                    /\ e.present /\ now - e.ts <= 600 * 1000)
                   => /\ q.pc = "done" /\ q.resp.status = 200
                      /\ NisabAgrees(q.resp.body, e.data, TRUE)
       /\ (nisab.pc = "await" /\ nisab'.pc = "done" /\ nisab'.resp.status = 200)
          => LET g == req[nisab.r].resp
             IN  /\ g.status = 200
                 /\ nisab'.resp.body.nisab = g.body.price_gram_24k * 85
                 /\ nisab'.resp.body.nisab_grams = 85
                 /\ NisabAgrees(nisab'.resp.body, g.body, g.body.cached)]_vars

(* C18: the nisab handler has no provider loop, cache or snapshot read of   *)
(* its own: a nisab request invokes no adapter, reads no snapshot and       *)
(* keeps no cache entry, it answers with a value only when the gold         *)
(* resolve it made succeeded, and with an error whenever that resolve       *)
(* failed.                                                                  *)
C18_NisabHasNoChainOfItsOwn ==
    /\ \A r \in Requests :
          (req[r].pc # "idle" /\ req[r].route = "nisab")
          => req[r].tried = <<>> /\ ~req[r].snapRead /\ req[r].via # "cache"
    /\ ~priceCache[CacheOf("nisab")].present
    /\ nisab.pc = "done"
       => LET g == req[nisab.r].resp
          IN  /\ nisab.resp.status = 200 => g.status = 200
              /\ g.status # 200 => nisab.resp.status # 200
              /\ (g.status = 200 /\ nisab.resp.status # 200)
                 => nisab.resp.body.error = "Failed to calculate nisab value"

(* C19: every successful resolution returns a price per ounce above 0: a    *)
(* success body whose price is not above 0 makes the adapter return null,   *)
(* so no response, cache entry or snapshot record carries such a price.     *)
C19_PricesArePositive ==
    /\ \A r \in Requests :
          (req[r].pc = "done" /\ req[r].resp.status = 200)
          => req[r].resp.body.price_oz > 0
    /\ \A k \in CacheKeys : priceCache[k].present => priceCache[k].data.price_oz > 0
    /\ \A inst \in Instruments :
          \A k \in StoredMonths(files[inst]) : files[inst].map[k].price_oz > 0

\* the ounce price a gram price stands for: gram * 31.1034768
OunceOfGram(gram) == MulDiv(gram, 19439673, 625000)

\* prices are in 1/10000 CAD; a gram price rounded to that unit gives the
\* ounce price back to within 16 units
GramAgrees(oz, gram) == OunceOfGram(gram) - oz \in -16..16

(* C20: in every payload an adapter produces the gram price is the ounce    *)
(* price over 31.1034768 within tolerance, whether the adapter derives it   *)
(* or goldapi.io supplies it; an ounce price of 6274.64 goes with a gram    *)
(* price of 201.7344.                                                       *)
C20_GramPriceAgrees ==
    \A r \in Requests :
        (req[r].via = "live")
        => /\ GramAgrees(req[r].resp.body.price_oz, req[r].resp.body.price_gram_24k)
           /\ req[r].resp.body.price_oz = 62746400
              => req[r].resp.body.price_gram_24k = 2017344

\* the payload a request that completes in this step was served from: the
\* cache entry, the snapshot record, or what the adapter made of a reply
Sources(r) ==
    LET q == req'[r]
        e == getCachedPrice(priceCache, KeyOf(q), now)
        f == getMonthlyFallback(FileOf(q), today)
    IN  IF q.via = "cache" THEN {e.data}
        ELSE IF q.via = "fallback" THEN {f.data}
        ELSE {out.data : out \in {o \in {AdapterStep(env, q.route, providers(q.route)[req[r].i],
                                                   req[r].stage, req[r].carry, reply)
                                           : reply \in Awaited(req[r])} : o.t = "payload"}}

(* C21: whichever way a resolve succeeds (cache hit, live provider,         *)
(* snapshot fallback) its price field is the gram price when grams was      *)
(* asked for and the ounce price otherwise, and price_oz and price_gram_24k *)
(* are those of the payload it was served from, whatever the unit.          *)
C21_PriceFollowsUnit ==
    [][\A r \in Requests :
         LET q == req'[r] IN
         (req[r].pc # "done" /\ q.pc = "done" /\ q.resp.status = 200)
         => /\ q.via \in {"cache", "live", "fallback"}
            /\ q.resp.body.price = IF q.grams THEN q.resp.body.price_gram_24k
                                   ELSE q.resp.body.price_oz
            /\ \E data \in Sources(r) :
                  /\ q.resp.body.price_oz = data.price_oz
                  /\ q.resp.body.price_gram_24k = data.price_gram_24k]_vars

\* grams were asked for and served live, then from the cache
C21_Witness ==
    \E a, b \in Requests :
        /\ req[a].grams /\ req[a].via = "live" /\ req[b].grams /\ req[b].via = "cache"
        /\ req[b].resp.body.price = req[b].resp.body.price_gram_24k
        /\ req[b].resp.body.price # req[b].resp.body.price_oz

\* request r completes in this step
Completes(r) == req[r].pc # "done" /\ req'[r].pc = "done"

\* a terminal response: a price with status 200, or the complete failure
Terminal(q) ==
    \/ /\ q.resp.status = 200 /\ q.via \in {"cache", "live", "fallback"}
       /\ q.resp.body.price_oz > 0 /\ q.resp.body.price_gram_24k > 0
       /\ q.resp.body.price = IF q.grams THEN q.resp.body.price_gram_24k
                              ELSE q.resp.body.price_oz
    \/ /\ q.resp.status = 500 /\ q.via = "failed"
       /\ q.resp.body.error =
             "Failed to fetch " \o Instrument(q.route) \o " price from all providers"

(* C22: there is no single flight.  A resolve without debug that misses the *)
(* cache while another resolve of the same instrument is awaiting a         *)
(* provider starts at the head of the provider chain itself and leaves the  *)
(* other resolve as it is; every resolve, overlapped or not, ends in a 200  *)
(* with a price or in the 500 of the complete failure.                      *)
C22_NoSingleFlight ==
    [][\A r \in Requests :
         LET q == req'[r]
             e == priceCache[KeyOf(q)]
         IN  /\ (/\ Accepted(r) /\ ~q.debug
                 /\ ~e.present \/ now - e.ts > CACHE_TTL_MS
                 /\ \E o \in Requests \ {r} :
                       req[o].pc = "fetch" /\ ~req[o].debug /\ req[o].route = q.route)
                => /\ q.via # "cache"
                   /\ q.tried # <<>> /\ q.tried[1] = providers(q.route)[1]
                   /\ \A o \in Requests \ {r} : req'[o] = req[o]
             /\ Completes(r) => Terminal(q)]_vars

\* two resolves without debug were both served live and both wrote the cache
\* at the same reading of the clock: had the second arrived after the first
\* had responded it would have hit the cache
C22_Witness ==
    \E a, b \in Requests :
        /\ a # b /\ req[a].route = req[b].route
        /\ ~req[a].debug /\ ~req[b].debug
        /\ req[a].via = "live" /\ req[b].via = "live"
        /\ req[a].calls # <<>> /\ req[b].calls # <<>>
        /\ req[a].cachedAt = req[b].cachedAt
        /\ Terminal(req[a]) /\ Terminal(req[b])

\* the writer whose writeFileSync succeeded last on the file of inst
LastWriter(inst) ==
    CHOOSE w \in Writers :
        /\ writers[w].wrote /\ writers[w].inst = inst
        /\ \A o \in Writers : writers[o].wrote => writers[o].seq <= writers[w].seq

(* C23: snapshot writes of concurrent processes are unlocked                *)
(* read-modify-write overwrites of the whole file and the last writer       *)
(* wins: a write leaves in the file the mapping its process loaded with     *)
(* that process's month set, whatever another process has written since     *)
(* the load; after the writes the file is the mapping of the process that   *)
(* wrote last.                                                              *)
C23_LastWriterWins ==
    [][/\ \A w \in Writers :
            (writers[w].pc = "loaded" /\ writers'[w].pc = "done" /\ writers'[w].wrote)
            => LET wr == writers[w]
                   inst == wr.inst
                   new == files'[inst]
               IN  /\ new.kind = "object"
                   /\ StoredMonths(new) = StoredMonths(wr.loaded) \cup {wr.key}
                   /\ \A k \in StoredMonths(wr.loaded) \ {wr.key} :
                         new.map[k] = wr.loaded.map[k]
                   /\ new.map[wr.key].timestamp.month0 + 1 =
                         10 * (wr.key[6] - 48) + (wr.key[7] - 48)
       /\ \A inst \in Instruments :
            (\E w \in Writers : writers'[w].wrote /\ writers'[w].inst = inst)
            => files'[inst].map = writers'[LastWriter(inst)'].monthlyPrices]_vars

\* both processes wrote, and the month the first writer stored is gone: the
\* last writer had loaded the file before that record was written
C23_Witness ==
    \E a, b \in Writers :
        /\ writers[a].wrote /\ writers[b].wrote /\ writers[a].inst = writers[b].inst
        /\ writers[a].seq < writers[b].seq
        /\ writers[a].key \notin StoredMonths(files[writers[a].inst])
        /\ writers[a].key \notin StoredMonths(writers[b].loaded)

\* the first n providers of the chain of route
ChainPrefix(route, n) == SubSeq(providers(route), 1, n)

(* C24: within one resolve the provider lookups are strictly sequential.    *)
(* The adapters invoked so far are a prefix of the chain in chain order;    *)
(* every invoked adapter but the last has returned, and returned null; the  *)
(* last one is outstanding exactly while the request awaits a fetch, so at  *)
(* most one lookup is outstanding; and the diagnostics of a debug request   *)
(* name the adapters that returned null, in chain order.                    *)
C24_SequentialLookups ==
    \A r \in Requests :
        LET q == req[r]
            n == Len(q.tried)
            m == Len(q.outcomes)
        IN  /\ n <= Len(providers(q.route))
            /\ q.tried = ChainPrefix(q.route, n)
            /\ m = IF q.pc = "fetch" THEN n - 1 ELSE n
            /\ \A j \in 1..m : j < n => q.outcomes[j] = "null"
            /\ \A j \in 1..Len(q.calls) :
                  /\ \E k \in 1..n : q.calls[j][1] = q.tried[k]
                  /\ j > 1 =>
                       \E a, b \in 1..n :
                           /\ a <= b
                           /\ q.calls[j - 1][1] = q.tried[a]
                           /\ q.calls[j][1] = q.tried[b]
            /\ q.pc = "fetch" => (q.calls # <<>> /\ q.calls[Len(q.calls)][1] = q.tried[n])
            /\ q.debug =>
                  q.errors = [j \in 1..Len(q.errors) |->
                                 [provider |-> providers(q.route)[j],
                                  message |-> "No data in response"]]
            /\ (q.debug /\ q.route # "nisab")
                  => Len(q.errors) = Cardinality({j \in 1..m : q.outcomes[j] = "null"})

\* a debug request is awaiting its third provider, the first two having
\* returned null in turn
C24_Witness ==
    \E r \in Requests :
        /\ req[r].pc = "fetch" /\ req[r].debug
        /\ Len(req[r].tried) = 3 /\ Len(req[r].errors) = 2
        /\ req[r].errors[1].provider # req[r].errors[2].provider
        /\ Len(req[r].calls) >= 2

\* where in the handler request record q is
Phase(q) ==
    IF q.pc = "idle" THEN "CheckCache"
    ELSE IF q.pc = "fetch" THEN "TryChain"
    ELSE IF q.resp.status = 200 THEN "Done"
    ELSE "Failed"

(* C25: a resolve goes from the cache check to the provider chain to the    *)
(* snapshot to its response and never back: it enters the chain only on a   *)
(* cache miss or in debug mode, moves along the chain forwards only, reads  *)
(* the snapshot only when every provider of the chain has returned null,    *)
(* and keeps its response once it has one; and if every awaited fetch       *)
(* comes back in the end, every accepted resolve ends with a response.      *)
C25_ResolveOrder ==
    /\ [][\A r \in Requests :
            LET q == req[r]
                n == req'[r]
                e == priceCache[KeyOf(n)]
            IN  /\ Phase(q) \in {"Done", "Failed"} => n = q
                /\ Phase(q) = "TryChain" => Phase(n) # "CheckCache"
                /\ (Phase(q) = "TryChain" /\ Phase(n) = "TryChain" /\ n # q)
                      => \/ n.i > q.i
                         \/ n.i = q.i /\ n.stage > q.stage
                /\ (Accepted(r) /\ n.tried # <<>>)
                      => \/ n.debug
                         \/ ~e.present
                         \/ now - e.ts > CACHE_TTL_MS
                /\ (Accepted(r) /\ n.via = "cache")
                      => (n.tried = <<>> /\ ~n.snapRead /\ Phase(n) = "Done")
                /\ n.snapRead
                      => /\ n.tried = providers(n.route)
                         /\ \A j \in 1..Len(n.outcomes) : n.outcomes[j] = "null"
                         /\ Len(n.outcomes) = Len(providers(n.route))
                         /\ n.via \in {"fallback", "failed"}
                         /\ Phase(n) = IF n.via = "fallback" THEN "Done" ELSE "Failed"
                /\ (Completes(r) /\ n.via \in {"fallback", "failed"}) => n.snapRead]_vars
    /\ \A r \in Requests :
          (Phase(req[r]) = "TryChain") ~> (Phase(req[r]) \in {"Done", "Failed"})

\* a resolve went through the whole chain, fetches included, to the
\* snapshot and was served from it
C25_Witness ==
    \E r \in Requests :
        /\ req[r].snapRead /\ Phase(req[r]) = "Done"
        /\ req[r].calls # <<>> /\ req[r].tried = providers(req[r].route)

\* whether the credential of the fetch <<name, stage>> is configured; the
\* stage of a goldapi.io fetch is the index of its key
Configured(e, name, stage) ==
    IF name = "goldapi.io" THEN e.gold[stage]
    ELSE IF name = "metals-api" THEN e.metals
    ELSE IF name = "fcsapi" THEN e.fcs
    ELSE TRUE

\* whether adapter name has any credential to use
HasCredential(e, name) ==
    IF name = "goldapi.io" THEN \E k \in 1..Len(GOLD_API_KEYS) : e.gold[k]
    ELSE Configured(e, name, 1)

(* C26: an adapter whose credential is absent returns null at once and      *)
(* makes no network call, and the chain goes on to the next provider as     *)
(* after a failure: no fetch is ever issued for an absent credential (for   *)
(* goldapi.io, for an absent key), an adapter without any credential is     *)
(* never awaited, and once it is passed its outcome is null and, in debug   *)
(* mode, its diagnostic is the one a failed adapter gets.                   *)
C26_MissingCredentialSkips ==
    \A r \in Requests :
        LET q == req[r] IN
        /\ \A j \in 1..Len(q.calls) : Configured(env, q.calls[j][1], q.calls[j][2])
        /\ q.pc = "fetch" => HasCredential(env, providers(q.route)[q.i])
        /\ \A j \in 1..Len(q.tried) :
              ~HasCredential(env, q.tried[j])
              => /\ \A c \in 1..Len(q.calls) : q.calls[c][1] # q.tried[j]
                 /\ Len(q.outcomes) >= j /\ q.outcomes[j] = "null"
                 /\ (q.pc = "done" /\ q.via # "live") => q.tried = providers(q.route)
                 /\ (q.debug /\ q.route # "nisab")
                       => q.errors[j] = [provider |-> q.tried[j],
                                         message |-> "No data in response"]

\* with no goldapi.io key and no fcsapi key a gold request in debug mode
\* passed both adapters without a fetch and asked metals-api and goldprice.org
C26_Witness ==
    \E r \in Requests :
        /\ req[r].pc = "done" /\ req[r].debug /\ req[r].route = "gold"
        /\ ~HasCredential(env, "goldapi.io") /\ ~HasCredential(env, "fcsapi")
        /\ req[r].tried = providers("gold")
        /\ req[r].calls = <<<<"metals-api", 1>>, <<"goldprice.org", 1>>>>
        /\ Len(req[r].errors) >= 3

\* the replies that are faults of the upstream or of the network
Faults == {Throw, BadStatus, Unparsable}

\* what the adapter request record q awaits makes of a reply
Outcome(q, reply) ==
    AdapterStep(env, q.route, providers(q.route)[q.i], q.stage, q.carry, reply)

(* C27: no adapter lets a fault out.  Whatever comes back to an awaited     *)
(* fetch (a thrown fetch, a non-success status, a body that does not parse, *)
(* a body without the fields) the adapter returns a payload, returns null   *)
(* or goes on to its next fetch; a non-success status and an unparsable     *)
(* body are never a payload and leave the adapter, and so the chain,        *)
(* exactly where a thrown fetch leaves them; and a request ends in a 200    *)
(* or in the 500 of the complete failure, nothing else.                     *)
C27_AdaptersContainFaults ==
    \A r \in Requests :
        LET q == req[r] IN
        /\ q.pc = "fetch"
              => /\ Faults \subseteq Awaited(q)
                 /\ \A reply \in Awaited(q) :
                       /\ Outcome(q, reply).t \in {"payload", "null", "fetch"}
                       /\ reply \in Faults
                             => /\ Outcome(q, reply) = Outcome(q, Throw)
                                /\ Outcome(q, reply).t # "payload"
        /\ q.pc = "done" => Terminal(q)
        /\ q.pc \in {"idle", "fetch", "done"}

\* a request is awaiting a provider after an earlier provider's fetch came
\* back without a payload
C27_Witness ==
    \E r \in Requests :
        /\ req[r].pc = "fetch" /\ Len(req[r].calls) >= 2
        /\ req[r].i > 1 /\ req[r].calls[1][1] # providers(req[r].route)[req[r].i]
        /\ Outcome(req[r], Unparsable) = Null

\* request r is awaiting goldapi.io
AwaitsGoldApi(q) == q.pc = "fetch" /\ providers(q.route)[q.i] = "goldapi.io"

\* the goldapi.io keys request record q has used, in the order of use
KeysUsed(q) == SelectSeq(q.calls, LAMBDA c : c[1] = "goldapi.io")

(* C28: the goldapi.io adapter uses its configured keys in the order        *)
(* KEY_1, KEY_2, KEY_3, each once and none left out; after a non-success    *)
(* status, a thrown fetch, an unparsable body or a body without numeric     *)
(* prices it goes on to the next configured key, and the chain sees         *)
(* nothing of that; the first key whose body has the numeric prices ends    *)
(* the adapter with a payload tagged with that key; when no key is left     *)
(* the chain sees one null outcome.                                         *)
C28_GoldApiKeyOrder ==
    [][\A r \in Requests :
         LET q == req[r]
             n == req'[r]
             used == KeysUsed(n)
         IN  /\ \A j \in 1..Len(used) :
                   /\ env.gold[used[j][2]]
                   /\ j > 1 => used[j - 1][2] < used[j][2]
                   /\ \A k \in 1..used[j][2] :
                         env.gold[k] => \E u \in 1..j : used[u][2] = k
             /\ Cardinality({j \in 1..Len(n.tried) : n.tried[j] = "goldapi.io"}) <= 1
             /\ (AwaitsGoldApi(q) /\ n # q)
                   => \/ /\ n.via = "live"
                         /\ n.resp.body.provider =
                               "goldapi.io (" \o GOLD_API_KEYS[q.stage] \o ")"
                         /\ \E p \in Quotes(Instrument(q.route)) :
                               n.resp.body.price_oz = p
                         /\ n.outcomes = Append(q.outcomes, "payload")
                      \/ /\ AwaitsGoldApi(n) /\ n.stage > q.stage
                         /\ \A k \in (q.stage + 1)..(n.stage - 1) : ~env.gold[k]
                         /\ n.tried = q.tried /\ n.outcomes = q.outcomes
                         /\ n.errors = q.errors
                      \/ /\ ~AwaitsGoldApi(n) /\ n.via # "live"
                         /\ \A k \in (q.stage + 1)..Len(GOLD_API_KEYS) : ~env.gold[k]
                         /\ Len(n.outcomes) > Len(q.outcomes)
                         /\ n.outcomes[Len(q.outcomes) + 1] = "null"
                         /\ n.debug => n.errors[1].provider = "goldapi.io"]_vars

\* KEY_1 failed, KEY_2 is not configured, and KEY_3 served the request
C28_Witness ==
    \E r \in Requests :
        /\ req[r].via = "live"
        /\ req[r].calls = <<<<"goldapi.io", 1>>, <<"goldapi.io", 3>>>>
        /\ ~env.gold[2]
        /\ req[r].resp.body.provider = "goldapi.io (GOLD_API_KEY_3)"
        /\ req[r].tried = <<"goldapi.io">>

\* request record q is awaiting the USD/CAD lookup of the fcsapi silver adapter
AwaitsFxRate(q) ==
    /\ q.pc = "fetch" /\ q.route = "silver2"
    /\ providers(q.route)[q.i] = "fcsapi" /\ q.stage = 2

(* C29: once the fcsapi silver adapter has the USD price, the USD/CAD       *)
(* lookup cannot fail the attempt: whatever comes back (a rate, a           *)
(* non-success status, a thrown fetch, a response without a rate) the       *)
(* request is served live by fcsapi, at the USD price times the rate        *)
(* received or times 1.4.                                                   *)
C29_FallbackRateOnFailure ==
    [][\A r \in Requests :
         LET q == req[r]
             n == req'[r]
         IN  (AwaitsFxRate(q) /\ n # q)
             => /\ n.via = "live"
                /\ n.resp.status = 200
                /\ n.resp.body.provider = "fcsapi"
                /\ \E x \in FxRates \cup {14000} :
                      n.resp.body.price_oz = MulDiv(q.carry, x, 10000)]_vars

\* the diagnostics a chain of route leaves when every provider returned null
AllDiagnostics(route) ==
    [j \in 1..Len(providers(route)) |->
        [provider |-> providers(route)[j], message |-> "No data in response"]]

C31_SecretGuardsSnapshot ==
    [][/\ (post.pc = "idle" /\ post'.pc # "idle")
            => IF env.secret # "" /\ post'.secret = env.secret
               THEN /\ post'.pc = "await" /\ post'.status = 0
                    /\ req'[post'.r] # req[post'.r]
               ELSE /\ post'.pc = "done" /\ post'.status = 401
                    /\ post'.error = "Unauthorized - invalid or missing secret"
                    /\ UNCHANGED <<req, files, priceCache>>
       /\ (post.pc = "await" /\ post'.pc = "done")
            => /\ env.secret # "" /\ post.secret = env.secret
               /\ files' # files => post'.status = 200
       /\ (post'.status = 401 /\ post.pc # "idle") => UNCHANGED <<post, files>>]_vars

\* with a secret configured a call with another secret was answered 401
C31_Witness ==
    /\ post.pc = "done" /\ post.status = 401
    /\ env.secret # "" /\ post.secret = "wrong"
    /\ \A r \in Requests : req[r].pc = "done"

\* the cache after the step is the cache before it, but for entries that
\* request r, accepted in the step, found expired and dropped
OnlyExpiredDropped(r) ==
    \A k \in CacheKeys :
        \/ priceCache'[k] = priceCache[k]
        \/ /\ priceCache'[k] = NoEntry /\ Accepted(r)
           /\ now - priceCache[k].ts > CACHE_TTL_MS

\* cache entry e is what request record q put there when a provider served it
WrittenBy(e, q) ==
    /\ q.via = "live" /\ ~q.debug /\ q.cachedAt = e.ts
    /\ q.resp.body.price_oz = e.data.price_oz
    /\ q.resp.body.price_gram_24k = e.data.price_gram_24k
    /\ q.resp.body.provider = e.data.provider

(* C32 as stated: a resolve that ends in the snapshot fallback or in the    *)
(* complete failure leaves the cache unchanged; so when a resolve was       *)
(* served live and cached, and the only resolve since ended in the          *)
(* fallback or the failure, the cache still holds the first one's entry.    *)
C32_FallbackLeavesCacheUnchanged ==
    \A a, b \in Requests :
        (/\ a < b /\ req[a].route = req[b].route
         /\ req[a].via = "live" /\ ~req[a].debug
         /\ req[b].pc = "done" /\ req[b].via \in {"fallback", "failed"})
        => /\ priceCache[KeyOf(req[a])].present
           /\ WrittenBy(priceCache[KeyOf(req[a])], req[a])

(* C32 as it holds: no step of a resolve other than the one in which a      *)
(* provider serves it writes a cache entry or the snapshot store; all a     *)
(* resolve that ends in the fallback or the failure can do to the cache is  *)
(* drop the entry it found expired.  So no cache entry holds a payload of   *)
(* provider "monthly-fallback", and every entry is the payload of a         *)
(* completed successful provider lookup.                                    *)
C32_FallbackWritesNothing ==
    [][/\ \A r \in Requests :
            (req'[r] # req[r] /\ req'[r].via # "live")
            => /\ files' = files
               /\ OnlyExpiredDropped(r)
       /\ \A k \in CacheKeys :
            priceCache'[k].present
            => /\ priceCache'[k].data.provider # "monthly-fallback"
               /\ ProviderOfTag(priceCache'[k].data.provider) # "unknown"
               /\ \E r \in Requests :
                     KeyOf(req'[r]) = k /\ WrittenBy(priceCache'[k], req'[r])]_vars

\* a resolve found the entry of an earlier one expired, went through the
\* chain and was served from the snapshot; the cache holds no entry
C32_Witness ==
    \E a, b \in Requests :
        /\ a < b /\ req[a].route = req[b].route
        /\ req[a].via = "live" /\ ~req[a].debug
        /\ req[b].via = "fallback" /\ ~req[b].debug
        /\ ~priceCache[KeyOf(req[b])].present

(* C33: a cache hit is read-only.  The step that answers a request from the *)
(* cache leaves the whole cache, so the entry's payload and its insertion   *)
(* time, and the snapshot store as they were; the entry it serves is at     *)
(* most CACHE_TTL_MS old, counted from its insertion, and the payload       *)
(* served is the stored one.                                                *)
C33_CacheHitIsReadOnly ==
    [][\A r \in Requests :
          (req'[r] # req[r] /\ req'[r].via = "cache")
          => /\ priceCache' = priceCache
             /\ files' = files
             /\ priceCache[KeyOf(req'[r])].present
             /\ now - priceCache[KeyOf(req'[r])].ts <= CACHE_TTL_MS
             /\ req'[r].resp.body.price_oz = priceCache[KeyOf(req'[r])].data.price_oz
             /\ req'[r].resp.body.provider = priceCache[KeyOf(req'[r])].data.provider
             /\ req'[r].resp.body.cached]_vars

\* an entry one request inserted was served to another from the cache and,
\* time having passed since the insertion, still carries its insertion time
C33_Witness ==
    \E a, b \in Requests :
        /\ req[a].via = "live" /\ req[b].via = "cache"
        /\ KeyOf(req[a]) = KeyOf(req[b])
        /\ priceCache[KeyOf(req[b])].present
        /\ priceCache[KeyOf(req[b])].ts = req[a].cachedAt
        /\ now > req[a].cachedAt

\* request record q belongs to a silver route
OnSilver(q) == q.route \in {"silver", "silver2"}

(* C34: instrument state is isolated.  No step of a silver resolve changes  *)
(* the gold cache entry or the gold snapshot file, and no step of a gold    *)
(* resolve changes the silver cache entry or the silver snapshot file; so   *)
(* no sequence of resolves of one instrument changes the other's state.     *)
C34_InstrumentsIsolated ==
    [][\A r \in Requests :
          req'[r] # req[r]
          => IF OnSilver(req'[r])
             THEN /\ priceCache'["XAU-CAD"] = priceCache["XAU-CAD"]
                  /\ files'["gold"] = files["gold"]
             ELSE /\ priceCache'["XAG-CAD"] = priceCache["XAG-CAD"]
                  /\ files'["silver"] = files["silver"]]_vars

\* a gold resolve was served live, cached and recorded, then a silver one
\* was, and the gold entry is the one the gold resolve left
C34_Witness ==
    \E a, b \in Requests :
        /\ a < b /\ req[a].route = "gold" /\ req[b].route = "silver"
        /\ req[a].via = "live" /\ ~req[a].debug
        /\ req[b].via = "live" /\ ~req[b].debug
        /\ priceCache["XAG-CAD"].present
        /\ priceCache["XAU-CAD"].present
        /\ WrittenBy(priceCache["XAU-CAD"], req[a])
        /\ files["silver"].kind = "object" /\ files["gold"].kind = "object"

\* request r is served by a provider in this step
ServedLive(r) == Completes(r) /\ req'[r].via = "live"

(* C35: overlapping resolves without debug, of one instrument, in one       *)
(* process.  The step in which a provider serves a resolve puts its payload *)
(* into the cache and writes the snapshot file, and it is one step: no      *)
(* other request moves in it.  No other step writes the cache or the file.  *)
(* So the cache entry is always the payload of the resolve served last:     *)
(* when all resolves have completed and one was served at a later reading   *)
(* of the clock than every other, the entry that is present is its payload, *)
(* whichever resolve started last.                                          *)
C35_LastCompletionWins ==
    [][/\ \A r \in Requests :
            LET q    == req'[r]
                k    == KeyOf(q)
                inst == Instrument(q.route)
            IN  /\ ServedLive(r)
                   => /\ priceCache'[k].present /\ priceCache'[k].ts = now
                      /\ WrittenBy(priceCache'[k], q)
                      /\ \A o \in Requests \ {r} : req'[o] = req[o]
                      /\ \E writeOk \in BOOLEAN :
                            files'[inst] =
                               IF WritesSnapshot(q.route)
                               THEN updateMonthlyPriceFile(files[inst], priceCache'[k].data,
                                                           today, now, writeOk)
                               ELSE files[inst]
                /\ (req'[r] # req[r] /\ ~ServedLive(r))
                   => files' = files /\ OnlyExpiredDropped(r)
       /\ (req' = req) => (priceCache' = priceCache /\ files' = files)
       /\ (\A r \in Requests : req'[r].pc = "done")
          => \A a \in Requests :
                (/\ req'[a].via = "live"
                 /\ \A o \in Requests \ {a} :
                       req'[o].via = "live" => req'[o].cachedAt < req'[a].cachedAt
                 /\ priceCache'[KeyOf(req'[a])].present)
                => WrittenBy(priceCache'[KeyOf(req'[a])], req'[a])]_vars

\* of two overlapping resolves the one that started first was served last,
\* by another provider than the one that started last, and the cache holds
\* its payload
C35_Witness ==
    \E a, b \in Requests :
        /\ a < b /\ req[a].route = req[b].route
        /\ req[a].via = "live" /\ req[b].via = "live"
        /\ req[b].cachedAt < req[a].cachedAt
        /\ req[a].resp.body.provider # req[b].resp.body.provider
        /\ priceCache[KeyOf(req[a])].present
        /\ WrittenBy(priceCache[KeyOf(req[a])], req[a])
        /\ ~WrittenBy(priceCache[KeyOf(req[a])], req[b])

=============================================================================
